---- MODULE Spec2Model ----
(***************************************************************************)
(* Model of the module-level front end of the roc compiler:                *)
(*   compiler/constrain/src/module.rs  (the import bridge)                 *)
(*   compiler/load/src/effect_module.rs (the builtin-effect synthesizer)   *)
(* Three specifications share the variables: SpecPre runs                  *)
(* pre_constrain_imports, SpecCon runs constrain_imports and SpecEff       *)
(* builds the effect combinators and runs the definitions they produce.    *)
(***************************************************************************)
EXTENDS Integers, Sequences, FiniteSets, TLC

VARIABLES
    \* pre_constrain_imports: the arguments
    home, references, imported_modules, exposed_types, stdlib,
    \* pre_constrain_imports: the locals and the position of the call
    symbol, todo, imported_symbols, hacky_symbols, imported_aliases,
    unused_imports, pre_pc, panic,
    \* constrain_imports: the arguments, the locals and the position of the call
    imports, var_store, import_idx, def_types, rigid_vars, con_pc,
    \* build_effect_builtins: the module it extends
    scope, exposed_symbols, declarations, the_effect_symbol, eff_pc,
    \* the machine that runs the definitions built, and what its caller holds
    ctl, kont, run, effect_value, forced_result, forces, forced, called

preArgs == <<home, references, imported_modules, exposed_types, stdlib>>
preVars == <<preArgs, symbol, todo, imported_symbols, hacky_symbols, imported_aliases,
             unused_imports, pre_pc, panic>>

conVars == <<imports, var_store, import_idx, def_types, rigid_vars, con_pc>>

effVars == <<scope, exposed_symbols, declarations, the_effect_symbol, eff_pc,
             ctl, kont, run, effect_value, forced_result, forces, forced, called>>

vars == <<preVars, conVars, effVars>>

(***************************************************************************)
(* Bounds of the model.                                                    *)
(***************************************************************************)
\* the largest number of referenced symbols of one call
MaxRefs == 2
\* the largest number of imports of one call of constrain_imports
MaxImports == 2
\* the largest number of times a caller forces the effect it got
MaxForces == 2
\* the largest number of forcings of one host thunk that is counted
MaxForced == 3
\* the largest number of host functions build_host_exposed_def is called for
MaxHostDefs == 2

(***************************************************************************)
(* Symbols, modules, regions.                                              *)
(***************************************************************************)
ModuleIds == {"Num", "Home", "Dep1", "Dep2"}

\* ModuleId::is_builtin
is_builtin(module_id) == module_id \in {"Num"}

Sym(m, i) == [module_id |-> m, ident |-> i]

Symbols ==
    {Sym("Num", "add"), Sym("Num", "Int"), Sym("Home", "main"),
     Sym("Dep1", "x"), Sym("Dep1", "y"), Sym("Dep2", "z")}

\* the value of the loop variable before the first iteration
NoSymbol == Sym("none", "none")

\* Region::zero()
RegionZero == 0

\* Loc { value, region }
Loc(v, r) == [value |-> v, region |-> r]

\* removal of a key from a map (MutMap::remove)
MapRemove(f, k) == [x \in (DOMAIN f) \ {k} |-> f[x]]

\* insertion into a map, overwriting (MutMap::insert)
MapInsert(f, k, v) == [x \in (DOMAIN f) \cup {k} |-> IF x = k THEN v ELSE f[x]]

EmptyMap == [x \in {} |-> 0]

(***************************************************************************)
(* Solved types: the exported form of a type.                              *)
(***************************************************************************)
Rigid(name) == [tag |-> "Rigid", name |-> name]
Flex(id) == [tag |-> "Flex", id |-> id]
Wildcard == [tag |-> "Wildcard"]
EmptyRecordT == [tag |-> "EmptyRecord"]
Func(args, closure, ret) == [tag |-> "Func", args |-> args, closure |-> closure, ret |-> ret]
AliasT(sym, args, actual) ==
    [tag |-> "Alias", symbol |-> sym, args |-> args, actual |-> actual]
\* SolvedType::Erroneous(Problem::InvalidModule)
ErroneousInvalidModule == [tag |-> "Erroneous", problem |-> "InvalidModule"]

\* a -> a
TyId == Func(<<Rigid("a")>>, Wildcard, Rigid("a"))
\* a, _ -> b, with a variable that lost its name
TyTwo == Func(<<Rigid("a"), Flex(0)>>, Wildcard, Rigid("b"))

(***************************************************************************)
(* pre_constrain_imports                                                   *)
(***************************************************************************)
\* struct Import
Import(loc_symbol, solved_type) == [loc_symbol |-> loc_symbol, solved_type |-> solved_type]

\* struct HackyImport
HackyImport(storage_subs, loc_symbol, variable) ==
    [storage_subs |-> storage_subs, loc_symbol |-> loc_symbol, variable |-> variable]

\* roc_types::builtin_aliases::aliases(), the keys
BuiltinAliases == {Sym("Num", "Int")}

\* ExposedModuleTypes::Invalid
Invalid == [tag |-> "Invalid"]

\* ExposedModuleTypes::Valid { .. }
Valid(solved_types, aliases, stored_vars_by_symbol, storage_subs) ==
    [tag |-> "Valid", solved_types |-> solved_types, aliases |-> aliases,
     stored_vars_by_symbol |-> stored_vars_by_symbol, storage_subs |-> storage_subs]

\* struct Alias, as far as the bridge looks at it
Alias(region, typ) == [region |-> region, typ |-> typ]

\* the alias symbol two modules may both export
SharedAlias == Sym("Dep1", "Pair")

\* the locals of the call once the loop has started
Locals(is, hs, ia, ui, p) ==
    [imported_symbols |-> is, hacky_symbols |-> hs, imported_aliases |-> ia,
     unused_imports |-> ui, panic |-> p]

NoPanic == [kind |-> "none"]

\* FindStoredVar that takes the last pair of the symbol instead of the first
FindStoredVar_Last(stored_vars_by_symbol, sym) ==
    LET hits == {i \in 1..Len(stored_vars_by_symbol) : stored_vars_by_symbol[i][1] = sym}
    IN  IF hits = {} THEN <<>>
        ELSE <<stored_vars_by_symbol[CHOOSE i \in hits : \A j \in hits : j <= i]>>

\* stored_vars_by_symbol.iter().find(|(s, _)| *s == loc_symbol.value)
FindStoredVar(stored_vars_by_symbol, sym) ==
    LET hits == {i \in 1..Len(stored_vars_by_symbol) : stored_vars_by_symbol[i][1] = sym}
    IN  IF hits = {} THEN <<>>
        ELSE <<stored_vars_by_symbol[CHOOSE i \in hits : \A j \in hits : i <= j]>>

\* MergeAliases that keeps the definition an alias symbol already has
MergeAliases_FirstWins(ia, new_aliases) ==
    [k \in (DOMAIN ia) \cup (DOMAIN new_aliases) |->
        IF k \in DOMAIN ia THEN ia[k] ELSE new_aliases[k]]

\* for (k, v) in new_aliases.clone() { imported_aliases.insert(k, v); }
MergeAliases(ia, new_aliases) ==
    [k \in (DOMAIN ia) \cup (DOMAIN new_aliases) |->
        IF k \in DOMAIN new_aliases THEN new_aliases[k] ELSE ia[k]]

\* BuiltinArm with the builtin aliases forgotten: only the applies set excuses
\* a symbol that is absent from the builtin types
BuiltinArm_NoAliases(L, sym, std) ==
    IF sym \in DOMAIN std.types
    THEN [L EXCEPT !.imported_symbols =
            Append(@, Import(Loc(sym, std.types[sym][2]), std.types[sym][1]))]
    ELSE IF sym \notin std.applies
         THEN [L EXCEPT !.panic = [kind |-> "builtin", symbol |-> sym]]
         ELSE L

\* the arm for a builtin module (module.rs 141-168)
BuiltinArm(L, sym, std) ==
    IF sym \in DOMAIN std.types
    THEN [L EXCEPT !.imported_symbols =
            Append(@, Import(Loc(sym, std.types[sym][2]), std.types[sym][1]))]
    ELSE LET is_valid_alias == sym \in std.applies \/ sym \in BuiltinAliases
         IN  IF ~is_valid_alias
             THEN [L EXCEPT !.panic = [kind |-> "builtin", symbol |-> sym]]
             ELSE L

\* ValidArm with the solved type unwrapped instead of tested: a symbol without
\* a recorded solved type aborts the call
ValidArm_Strict(L, loc_symbol, entry) ==
    IF loc_symbol.value \in DOMAIN entry.solved_types
    THEN LET found == FindStoredVar(entry.stored_vars_by_symbol, loc_symbol.value)
             merged == [L EXCEPT
                 !.imported_aliases = MergeAliases(@, entry.aliases),
                 !.imported_symbols =
                     Append(@, Import(loc_symbol, entry.solved_types[loc_symbol.value]))]
         IN  IF found = <<>>
             THEN [merged EXCEPT !.panic = [kind |-> "unwrap", symbol |-> loc_symbol.value]]
             ELSE [merged EXCEPT !.hacky_symbols =
                     Append(@, HackyImport(entry.storage_subs, loc_symbol, found[1][2]))]
    ELSE [L EXCEPT !.panic = [kind |-> "unwrap", symbol |-> loc_symbol.value]]

\* the arm Some(ExposedModuleTypes::Valid { .. }) (module.rs 178-211)
ValidArm(L, loc_symbol, entry) ==
    IF loc_symbol.value \in DOMAIN entry.solved_types
    THEN LET found == FindStoredVar(entry.stored_vars_by_symbol, loc_symbol.value)
             merged == [L EXCEPT
                 !.imported_aliases = MergeAliases(@, entry.aliases),
                 !.imported_symbols =
                     Append(@, Import(loc_symbol, entry.solved_types[loc_symbol.value]))]
         IN  IF found = <<>>
             THEN [merged EXCEPT !.panic = [kind |-> "unwrap", symbol |-> loc_symbol.value]]
             ELSE [merged EXCEPT !.hacky_symbols =
                     Append(@, HackyImport(entry.storage_subs, loc_symbol, found[1][2]))]
    ELSE L

\* InvalidArm that imports nothing from an invalid module
InvalidArm_Skip(L, loc_symbol) == L

\* the arm Some(ExposedModuleTypes::Invalid) (module.rs 212-221)
InvalidArm(L, loc_symbol) ==
    [L EXCEPT !.imported_symbols = Append(@, Import(loc_symbol, ErroneousInvalidModule))]

\* ExposedArm that treats a module without an entry like an invalid module
ExposedArm_Lenient(L, sym, exposed) ==
    LET module_id == sym.module_id
        loc_symbol == Loc(sym, RegionZero)
    IN  IF module_id \in DOMAIN exposed /\ exposed[module_id].tag = "Valid"
        THEN ValidArm(L, loc_symbol, exposed[module_id])
        ELSE InvalidArm(L, loc_symbol)

\* the arm for a module that is neither builtin nor home (module.rs 169-229)
ExposedArm(L, sym, exposed) ==
    LET module_id == sym.module_id
        loc_symbol == Loc(sym, RegionZero)
    IN  IF module_id \in DOMAIN exposed
        THEN IF exposed[module_id].tag = "Valid"
             THEN ValidArm(L, loc_symbol, exposed[module_id])
             ELSE InvalidArm(L, loc_symbol)
        ELSE [L EXCEPT !.panic = [kind |-> "module", module_id |-> module_id]]

\* MarkUsed that leaves the builtin modules among the unused imports
MarkUsed_KeepBuiltin(ui, module_id) ==
    IF is_builtin(module_id) THEN ui ELSE MapRemove(ui, module_id)

\* unused_imports.remove(&module_id)
MarkUsed(ui, module_id) == MapRemove(ui, module_id)

\* one iteration of the loop over the references (module.rs 135-230)
LoopBody(L, sym, hm, exposed, std) ==
    LET module_id == sym.module_id
        L1 == [L EXCEPT !.unused_imports = MarkUsed(@, module_id)]
    IN  IF is_builtin(module_id) THEN BuiltinArm(L1, sym, std)
        ELSE IF module_id # hm THEN ExposedArm(L1, sym, exposed)
        ELSE L1

(***************************************************************************)
(* The inputs of pre_constrain_imports the model draws from.               *)
(***************************************************************************)
\* the modules imported, each with the region it was imported at
ImportedModulesChoices ==
    {[m \in ms |-> CASE m = "Num" -> 11 [] m = "Home" -> 12 [] m = "Dep1" -> 13 [] OTHER -> 14] :
        ms \in {{}, {"Dep1"}, {"Num", "Dep2"}, {"Home", "Dep1", "Dep2"}, ModuleIds}}

StdLibChoices ==
    {[types |-> t, applies |-> a] :
        t \in {EmptyMap,
               [s \in {Sym("Num", "add")} |-> <<TyId, 21>>],
               [s \in {Sym("Num", "add"), Sym("Num", "Int")} |-> <<TyId, 21>>]},
        a \in {{}, {Sym("Num", "add")}}}

Dep1Aliases == [s \in {SharedAlias} |-> Alias(31, TyId)]
Dep2Aliases == [s \in {SharedAlias} |-> Alias(32, TyTwo)]

\* the entries the table may hold for Dep1, which exports x and y
Dep1Entries ==
    {Invalid,
     Valid([s \in {Sym("Dep1", "x"), Sym("Dep1", "y")} |-> IF s.ident = "x" THEN TyId ELSE TyTwo],
           Dep1Aliases, <<<<Sym("Dep1", "y"), 41>>, <<Sym("Dep1", "x"), 42>>>>, "subs1"),
     Valid([s \in {Sym("Dep1", "x")} |-> TyId],
           Dep1Aliases, <<<<Sym("Dep1", "x"), 42>>>>, "subs1"),
     Valid([s \in {Sym("Dep1", "x"), Sym("Dep1", "y")} |-> TyTwo],
           EmptyMap, <<<<Sym("Dep1", "y"), 41>>>>, "subs1")}

\* the entries the table may hold for Dep2, which exports z
Dep2Entries ==
    {Invalid,
     Valid([s \in {Sym("Dep2", "z")} |-> TyTwo], Dep2Aliases,
           <<<<Sym("Dep2", "z"), 43>>, <<Sym("Dep2", "z"), 44>>>>, "subs2"),
     Valid([s \in {Sym("Dep2", "z")} |-> TyId], Dep2Aliases, <<>>, "subs2"),
     Valid(EmptyMap, Dep2Aliases, <<>>, "subs2")}

\* the exposed-types tables: an entry or none for each of the two dependencies
ExposedTypesChoices ==
    {[m \in ms |-> IF m = "Dep1" THEN e1 ELSE e2] :
        ms \in SUBSET {"Dep1", "Dep2"}, e1 \in Dep1Entries, e2 \in Dep2Entries}

\* the module being compiled
HomeChoices == {"Home", "Dep2"}

ReferencesChoices == {rs \in SUBSET Symbols : Cardinality(rs) <= MaxRefs}

\* the variables of pre_constrain_imports while another function runs
PreIdle ==
    /\ home = "Home"
    /\ references = {}
    /\ imported_modules = EmptyMap
    /\ exposed_types = EmptyMap
    /\ stdlib = [types |-> EmptyMap, applies |-> {}]
    /\ symbol = NoSymbol
    /\ todo = {}
    /\ imported_symbols = <<>>
    /\ hacky_symbols = <<>>
    /\ imported_aliases = EmptyMap
    /\ unused_imports = EmptyMap
    /\ pre_pc = "idle"
    /\ panic = NoPanic

\* the variables of constrain_imports while another function runs
ConIdle ==
    /\ imports = <<>>
    /\ var_store = 0
    /\ import_idx = 1
    /\ def_types = <<>>
    /\ rigid_vars = <<>>
    /\ con_pc = "idle"

\* the module the effect definitions are generated in
EffectHome == "Fx"
\* no value yet
NoValue == [v |-> "None"]
\* the machine holds a value
RetC(val) == [mode |-> "ret", val |-> val]
\* an application a caller makes: the combinator and its argument values
Run(combinator, args) == [combinator |-> combinator, args |-> args]
\* the machine and its caller before anything ran: no application yet, and
\* no thunk or function of the host called
MachineIdle ==
    /\ ctl = RetC(NoValue)
    /\ kont = <<>>
    /\ run = Run("none", <<>>)
    /\ effect_value = NoValue
    /\ forced_result = NoValue
    /\ forces = 0
    /\ forced = [i \in {"E", "E2"} |-> 0]
    /\ called = [n \in {"succ", "double", "then"} |-> 0]

\* the variables of the effect synthesizer while another function runs
EffIdle ==
    /\ scope = {}
    /\ exposed_symbols = {}
    /\ declarations = <<>>
    /\ the_effect_symbol = Sym(EffectHome, "Effect")
    /\ eff_pc = "idle"
    /\ MachineIdle

(***************************************************************************)
(* SpecPre: one call of pre_constrain_imports.                             *)
(***************************************************************************)
InitPre ==
    /\ EffIdle
    /\ ConIdle
    /\ home \in HomeChoices
    /\ references \in ReferencesChoices
    /\ imported_modules \in ImportedModulesChoices
    /\ exposed_types \in ExposedTypesChoices
    \* the module being compiled is not solved yet: the table has no entry for it
    /\ home \notin DOMAIN exposed_types
    /\ stdlib \in StdLibChoices
    /\ symbol = NoSymbol
    /\ todo = references
    /\ imported_symbols = <<>>
    /\ hacky_symbols = <<>>
    /\ imported_aliases = EmptyMap
    /\ unused_imports = imported_modules
    /\ pre_pc = "loop"
    /\ panic = NoPanic

\* ExposedAfter with the entry taken out of the table (remove) instead of
\* borrowed (get)
ExposedAfter_Take(exposed, sym, hm) ==
    IF ~is_builtin(sym.module_id) /\ sym.module_id # hm
    THEN MapRemove(exposed, sym.module_id)
    ELSE exposed

\* exposed_types: &mut SubsByModule after one iteration: the loop body only
\* calls exposed_types.get(&module_id) on it (module.rs 177)
ExposedAfter(exposed, sym, hm) == exposed

\* for &symbol in references.iter() { .. }: the set is iterated in no set order
LoopIteration ==
    /\ pre_pc = "loop"
    /\ \E s \in todo :
        LET L == LoopBody(Locals(imported_symbols, hacky_symbols, imported_aliases,
                                 unused_imports, panic),
                          s, home, exposed_types, stdlib)
        IN  /\ symbol' = s
            /\ todo' = todo \ {s}
            /\ imported_symbols' = L.imported_symbols
            /\ hacky_symbols' = L.hacky_symbols
            /\ imported_aliases' = L.imported_aliases
            /\ unused_imports' = L.unused_imports
            /\ panic' = L.panic
            /\ pre_pc' = IF L.panic.kind # "none" THEN "panicked" ELSE "loop"
            /\ exposed_types' = ExposedAfter(exposed_types, s, home)
    /\ UNCHANGED <<home, references, imported_modules, stdlib, conVars, effVars>>

\* ConstrainableImports { .. } (module.rs 232-237)
ReturnImports ==
    /\ pre_pc = "loop"
    /\ todo = {}
    /\ pre_pc' = "returned"
    /\ UNCHANGED <<preArgs, symbol, todo, imported_symbols, hacky_symbols,
                   imported_aliases, unused_imports, panic, conVars, effVars>>

NextPre == LoopIteration \/ ReturnImports

SpecPre == InitPre /\ [][NextPre]_vars

(***************************************************************************)
(* Translation of a solved type into a local type.                         *)
(***************************************************************************)
\* roc_types::types::Type
Variable(v) == [tag |-> "Variable", var |-> v]
Function(args, closure, ret) ==
    [tag |-> "Function", args |-> args, closure |-> closure, ret |-> ret]
EmptyRec == [tag |-> "EmptyRec"]
ErroneousT(problem) == [tag |-> "Erroneous", problem |-> problem]
TypeAlias(sym, type_arguments, lambda_set_variables, actual) ==
    [tag |-> "Alias", symbol |-> sym, type_arguments |-> type_arguments,
     lambda_set_variables |-> lambda_set_variables, actual |-> actual]

\* the result of a translation: the type, the table and the allocator after it
Translated(typ, fv, vs) == [typ |-> typ, free_vars |-> fv, var_store |-> vs]

RECURSIVE to_type(_, _, _)
RECURSIVE to_types(_, _, _, _)

\* the translation of a list of solved types, left to right
to_types(ts, done, fv, vs) ==
    IF ts = <<>> THEN Translated(done, fv, vs)
    ELSE LET h == to_type(Head(ts), fv, vs)
         IN  to_types(Tail(ts), Append(done, h.typ), h.free_vars, h.var_store)

\* roc_types::solved_types::to_type: a named or an unnamed variable gets a fresh
\* variable the first time the table meets it, a wildcard each time
to_type(t, fv, vs) ==
    CASE t.tag = "Rigid" ->
            IF t.name \in DOMAIN fv.named_vars
            THEN Translated(Variable(fv.named_vars[t.name]), fv, vs)
            ELSE Translated(Variable(vs),
                            [fv EXCEPT !.named_vars = MapInsert(@, t.name, vs)], vs + 1)
      [] t.tag = "Flex" ->
            IF t.id \in DOMAIN fv.unnamed_vars
            THEN Translated(Variable(fv.unnamed_vars[t.id]), fv, vs)
            ELSE Translated(Variable(vs),
                            [fv EXCEPT !.unnamed_vars = MapInsert(@, t.id, vs)], vs + 1)
      [] t.tag = "Wildcard" ->
            Translated(Variable(vs), [fv EXCEPT !.wildcards = Append(@, vs)], vs + 1)
      [] t.tag = "EmptyRecord" -> Translated(EmptyRec, fv, vs)
      [] t.tag = "Erroneous" -> Translated(ErroneousT(t.problem), fv, vs)
      [] t.tag = "Func" ->
            LET as == to_types(t.args, <<>>, fv, vs)
                r == to_type(t.ret, as.free_vars, as.var_store)
                c == to_type(t.closure, r.free_vars, r.var_store)
            IN  Translated(Function(as.typ, c.typ, r.typ), c.free_vars, c.var_store)
      [] t.tag = "Alias" ->
            LET as == to_types(t.args, <<>>, fv, vs)
                a == to_type(t.actual, as.free_vars, as.var_store)
            IN  Translated(TypeAlias(t.symbol, as.typ, <<>>, a.typ), a.free_vars, a.var_store)

(***************************************************************************)
(* constrain_imports                                                       *)
(***************************************************************************)
\* the orders a hash map may be iterated in: the sequences that hold each value
\* of the map once
IterationOrders(f) ==
    {q \in [1..Cardinality(DOMAIN f) -> {f[k] : k \in DOMAIN f}] :
        \A i, j \in DOMAIN q : i # j => q[i] # q[j]}

\* IsSelfAlias that takes no alias for the import's own: every import is
\* translated
IsSelfAlias_Never(import) == FALSE

\* the guard of the first match arm (module.rs 61)
IsSelfAlias(import) ==
    import.solved_type.tag = "Alias" /\ import.solved_type.symbol = import.loc_symbol.value

\* the entry pushed to def_types (module.rs 71-77)
DefType(loc_symbol, typ) == <<loc_symbol.value, Loc(typ, loc_symbol.region)>>

\* PushRigids with the wildcards pushed before the named variables
PushRigids_WildcardsFirst(rv, free_vars, named, unnamed) ==
    rv \o free_vars.wildcards \o named \o unnamed

\* PushRigids without the loop over the unnamed variables
PushRigids_NoUnnamed(rv, free_vars, named, unnamed) == rv \o named \o free_vars.wildcards

\* the variables pushed to rigid_vars for one import (module.rs 79-91), the two
\* maps in the orders named and unnamed
PushRigids(rv, free_vars, named, unnamed) == rv \o named \o free_vars.wildcards \o unnamed

\* the second match arm (module.rs 64-92)
TranslateArm(C, import, free_vars, named, unnamed) ==
    LET t == to_type(import.solved_type, free_vars, C.var_store)
    IN  [var_store |-> t.var_store,
         def_types |-> Append(C.def_types, DefType(import.loc_symbol, t.typ)),
         rigid_vars |-> PushRigids(C.rigid_vars, t.free_vars, named, unnamed)]

\* the table an import is translated with: FreeVars::default() (module.rs 56)
ImportFreeVars(import) ==
    [named_vars |-> EmptyMap, unnamed_vars |-> EmptyMap, wildcards |-> <<>>]

\* the table the import leaves behind: what the loops at module.rs 79-91 iterate
FreeVarsAfter(C, import) ==
    to_type(import.solved_type, ImportFreeVars(import), C.var_store).free_vars

\* one iteration of the loop over the imports (module.rs 55-94)
ImportBody(C, import, named, unnamed) ==
    IF IsSelfAlias(import) THEN C
    ELSE TranslateArm(C, import, ImportFreeVars(import), named, unnamed)

\* the solved types of the imports: among them one with no free variable at
\* all, and one with variables that occur more than once and two wildcards
SolvedTypeChoices ==
    {TyId, TyTwo, ErroneousInvalidModule,
     Func(<<EmptyRecordT>>, EmptyRecordT, EmptyRecordT),
     Func(<<Wildcard, Flex(0), Flex(1), Flex(0)>>, Wildcard, Rigid("a")),
     AliasT(SharedAlias, <<Rigid("a")>>, Func(<<Rigid("a")>>, Wildcard, Rigid("b")))}

ImportChoices ==
    {Import(l, t) :
        l \in {Loc(Sym("Dep1", "x"), RegionZero), Loc(SharedAlias, RegionZero),
               Loc(Sym("Num", "add"), 21)},
        t \in SolvedTypeChoices}

ImportsChoices == UNION {[1..n -> ImportChoices] : n \in 0..MaxImports}

VarStoreChoices == {0, 5}

(***************************************************************************)
(* SpecCon: one call of constrain_imports.                                 *)
(***************************************************************************)
InitCon ==
    /\ EffIdle
    /\ PreIdle
    /\ imports \in ImportsChoices
    /\ var_store \in VarStoreChoices
    /\ import_idx = 1
    /\ def_types = <<>>
    /\ rigid_vars = <<>>
    /\ con_pc = "loop"

\* for import in imports { .. }
ImportIteration ==
    /\ con_pc = "loop"
    /\ import_idx <= Len(imports)
    /\ LET import == imports[import_idx]
           C == [var_store |-> var_store, def_types |-> def_types, rigid_vars |-> rigid_vars]
           fv == FreeVarsAfter(C, import)
       IN  \E named \in IterationOrders(fv.named_vars),
              unnamed \in IterationOrders(fv.unnamed_vars) :
               LET D == ImportBody(C, import, named, unnamed)
               IN  /\ var_store' = D.var_store
                   /\ def_types' = D.def_types
                   /\ rigid_vars' = D.rigid_vars
    /\ import_idx' = import_idx + 1
    /\ UNCHANGED <<imports, con_pc, preVars, effVars>>

\* (rigid_vars, def_types) (module.rs 96)
ReturnConstraints ==
    /\ con_pc = "loop"
    /\ import_idx > Len(imports)
    /\ con_pc' = "returned"
    /\ UNCHANGED <<imports, var_store, import_idx, def_types, rigid_vars, preVars, effVars>>

NextCon == ImportIteration \/ ReturnConstraints

SpecCon == InitCon /\ [][NextCon]_vars

(***************************************************************************)
(* The canonical AST the effect synthesizer builds.                        *)
(***************************************************************************)
\* Loc::at_zero
AtZero(x) == Loc(x, RegionZero)

\* Expr::Var
ExprVar(sym) == [expr |-> "Var", symbol |-> sym]

\* Expr::EmptyRecord
ExprEmptyRecord == [expr |-> "EmptyRecord"]

\* Expr::Closure(ClosureData { .. }), the fields in the order of the struct
ClosureData(function_type, closure_type, closure_ext_var, return_type, name, captured_symbols, recursive, arguments, loc_body) ==
    [expr |-> "Closure", function_type |-> function_type, closure_type |-> closure_type,
     closure_ext_var |-> closure_ext_var, return_type |-> return_type, name |-> name,
     captured_symbols |-> captured_symbols, recursive |-> recursive,
     arguments |-> arguments, loc_body |-> loc_body]

\* Expr::Tag { variant_var, ext_var, name, arguments }
ExprTag(variant_var, ext_var, name, arguments) ==
    [expr |-> "Tag", variant_var |-> variant_var, ext_var |-> ext_var, name |-> name,
     arguments |-> arguments]

\* Expr::Call(Box::new(boxed), arguments, CalledVia::Space)
ExprCall(boxed, arguments) ==
    [expr |-> "Call", boxed |-> boxed, arguments |-> arguments, called_via |-> "Space"]

\* Expr::LetNonRec(Box::new(def), Box::new(body), var)
ExprLetNonRec(def, body, var) ==
    [expr |-> "LetNonRec", def |-> def, body |-> body, var |-> var]

\* Pattern::Identifier
PIdentifier(sym) == [pat |-> "Identifier", symbol |-> sym]

\* Pattern::AppliedTag { whole_var, ext_var, tag_name, arguments }
PAppliedTag(whole_var, ext_var, tag_name, arguments) ==
    [pat |-> "AppliedTag", whole_var |-> whole_var, ext_var |-> ext_var,
     tag_name |-> tag_name, arguments |-> arguments]

\* Pattern::RecordDestructure { whole_var, ext_var, destructs }
PRecordDestructure(whole_var, ext_var, destructs) ==
    [pat |-> "RecordDestructure", whole_var |-> whole_var, ext_var |-> ext_var,
     destructs |-> destructs]

\* Pattern::Underscore
PUnderscore == [pat |-> "Underscore"]

\* struct Def
Def(loc_pattern, loc_expr, expr_var, pattern_vars, annotation) ==
    [loc_pattern |-> loc_pattern, loc_expr |-> loc_expr, expr_var |-> expr_var,
     pattern_vars |-> pattern_vars, annotation |-> annotation]

\* roc_can::def::Annotation inside Some(..)
SomeAnnotation(signature, introduced_variables) ==
    [some |-> TRUE, signature |-> signature, introduced_variables |-> introduced_variables,
     aliases |-> EmptyMap, region |-> RegionZero]

\* annotation: None
NoAnnotation == [some |-> FALSE]

\* TagName::Private
TagPrivate(sym) == [private |-> sym]

\* Type::TagUnion
TagUnion(tags, ext) == [tag |-> "TagUnion", tags |-> tags, ext |-> ext]

\* Type::EmptyTagUnion
EmptyTagUnion == [tag |-> "EmptyTagUnion"]

\* IntroducedVariables::default()
NoIntroduced == [wildcards |-> <<>>, var_by_name |-> EmptyMap, name_by_var |-> EmptyMap]

\* IntroducedVariables::insert_named
insert_named(iv, name, var) ==
    [iv EXCEPT !.var_by_name = MapInsert(@, name, var),
               !.name_by_var = MapInsert(@, var, name)]

\* IntroducedVariables::insert_wildcard
insert_wildcard(iv, var) == [iv EXCEPT !.wildcards = Append(@, var)]


\* the symbol scope.introduce returns for an identifier
Introduced(ident) == Sym(EffectHome, ident)

\* #[inline(always)] fn empty_record_pattern: two fresh variables from vs on
empty_record_pattern(vs) == PRecordDestructure(vs, vs + 1, <<>>)

\* build_effect_alias whose lambda-set variable is the type argument's variable
\* instead of the closure variable
build_effect_alias_ArgumentLambdaSet(effect_symbol, effect_tag_name, a_name, a_var, a_type, closure_var, iv) ==
    [typ |-> TypeAlias(effect_symbol, <<<<a_name, Variable(a_var)>>>>,
                       <<Variable(a_var)>>,
                       TagUnion(<<<<effect_tag_name,
                                    <<Function(<<EmptyRec>>, Variable(closure_var), a_type)>>>>>>,
                                EmptyTagUnion)),
     introduced_variables |-> insert_wildcard(iv, closure_var)]

\* fn build_effect_alias, with the closure variable it allocates given as
\* closure_var (effect_module.rs 1181-1213): the type, and the variables
\* introduced
build_effect_alias(effect_symbol, effect_tag_name, a_name, a_var, a_type, closure_var, iv) ==
    [typ |-> TypeAlias(effect_symbol, <<<<a_name, Variable(a_var)>>>>,
                       <<Variable(closure_var)>>,
                       TagUnion(<<<<effect_tag_name,
                                    <<Function(<<EmptyRec>>, Variable(closure_var), a_type)>>>>>>,
                                EmptyTagUnion)),
     introduced_variables |-> insert_wildcard(iv, closure_var)]

\* what a builder returns, with the allocator after it and the identifiers it
\* introduced, in order
Built(sym, def, vs, idents) ==
    [symbol |-> sym, def |-> def, var_store |-> vs, idents |-> idents]

(***************************************************************************)
(* build_effect_always                                                     *)
(***************************************************************************)
\* always_const_closure whose body is {} in place of the captured value
always_const_closure_Unit(value_symbol, inner_closure_symbol, vs) ==
    ClosureData(vs + 3, vs + 4, vs + 5, vs + 6, inner_closure_symbol,
                <<<<value_symbol, vs + 7>>>>, "NotRecursive",
                <<<<vs, AtZero(empty_record_pattern(vs + 1))>>>>,
                AtZero(ExprEmptyRecord))

\* `\{} -> value` (effect_module.rs 128-148)
always_const_closure(value_symbol, inner_closure_symbol, vs) ==
    ClosureData(vs + 3, vs + 4, vs + 5, vs + 6, inner_closure_symbol,
                <<<<value_symbol, vs + 7>>>>, "NotRecursive",
                <<<<vs, AtZero(empty_record_pattern(vs + 1))>>>>,
                AtZero(ExprVar(value_symbol)))

\* `\value -> @Effect \{} -> value` (effect_module.rs 150-179)
always_closure(always_symbol, value_symbol, effect_tag_name, const_closure, vs) ==
    ClosureData(vs + 4, vs + 5, vs + 6, vs + 7, always_symbol, <<>>, "NotRecursive",
                <<<<vs + 3, AtZero(PIdentifier(value_symbol))>>>>,
                AtZero(ExprTag(vs, vs + 1, effect_tag_name,
                               <<<<vs + 2, AtZero(const_closure)>>>>)))

\* Effect.always : a -> Effect a (effect_module.rs 181-213)
always_annotation(effect_symbol, effect_tag_name, vs) ==
    LET var_a == vs
        iv1 == insert_named(NoIntroduced, "a", var_a)
        effect_a == build_effect_alias(effect_symbol, effect_tag_name, "a", var_a,
                                       Variable(var_a), vs + 1, iv1)
        closure_var == vs + 2
        iv2 == insert_wildcard(effect_a.introduced_variables, closure_var)
    IN  SomeAnnotation(Function(<<Variable(var_a)>>, Variable(closure_var), effect_a.typ), iv2)

\* fn build_effect_always (effect_module.rs 86-227)
build_effect_always(effect_symbol, effect_tag_name, vs) ==
    LET value_symbol == Introduced("effect_always_value")
        inner_closure_symbol == Introduced("effect_always_inner")
        always_symbol == Introduced("always")
        const_closure == always_const_closure(value_symbol, inner_closure_symbol, vs)
        function_var == vs + 12
        the_closure == always_closure(always_symbol, value_symbol, effect_tag_name,
                                      const_closure, vs + 8)
        def_annotation == always_annotation(effect_symbol, effect_tag_name, vs + 16)
    IN  Built(always_symbol,
              Def(AtZero(PIdentifier(always_symbol)), AtZero(the_closure), function_var,
                  [s \in {always_symbol} |-> function_var], def_annotation),
              vs + 19,
              <<"effect_always_value", "effect_always_inner", "always">>)

(***************************************************************************)
(* build_effect_map                                                        *)
(***************************************************************************)
\* `thunk {}` (effect_module.rs 271-282, 483-494)
force_thunk_call(thunk_symbol, vs) ==
    ExprCall(<<vs, AtZero(ExprVar(thunk_symbol)), vs + 1, vs + 2>>,
             <<<<vs + 3, AtZero(ExprEmptyRecord)>>>>)

\* mapper_call that leaves the mapper out: the forced value as it is
mapper_call_NoMapper(mapper_symbol, the_force_thunk_call, vs) == the_force_thunk_call

\* `mapper (thunk {})` (effect_module.rs 284-295)
mapper_call(mapper_symbol, the_force_thunk_call, vs) ==
    ExprCall(<<vs, AtZero(ExprVar(mapper_symbol)), vs + 1, vs + 2>>,
             <<<<vs + 3, AtZero(the_force_thunk_call)>>>>)

\* `\{} -> mapper (thunk {})` (effect_module.rs 308-329)
map_inner_closure(inner_closure_symbol, thunk_symbol, mapper_symbol, the_mapper_call, vs) ==
    ClosureData(vs + 3, vs + 4, vs + 5, vs + 6, inner_closure_symbol,
                <<<<thunk_symbol, vs + 7>>, <<mapper_symbol, vs + 8>>>>, "NotRecursive",
                <<<<vs, AtZero(empty_record_pattern(vs + 1))>>>>,
                AtZero(the_mapper_call))

\* the patterns `@Effect thunk, f` of map and after (effect_module.rs 331-348,
\* 509-526)
effect_and_function_arguments(effect_tag_name, thunk_symbol, function_symbol, vs) ==
    <<<<vs, AtZero(PAppliedTag(vs + 1, vs + 2, effect_tag_name,
                               <<<<vs + 3, AtZero(PIdentifier(thunk_symbol))>>>>))>>,
      <<vs + 4, AtZero(PIdentifier(function_symbol))>>>>

\* `@Effect \{} -> (mapper (thunk {}))` (effect_module.rs 350-356)
map_body(effect_tag_name, inner_closure, vs) ==
    ExprTag(vs, vs + 1, effect_tag_name, <<<<vs + 2, AtZero(inner_closure)>>>>)

\* Effect.map : Effect a, (a -> b) -> Effect b (effect_module.rs 371-425)
map_annotation(effect_symbol, effect_tag_name, vs) ==
    LET var_a == vs
        var_b == vs + 1
        iv1 == insert_named(insert_named(NoIntroduced, "a", var_a), "b", var_b)
        effect_a == build_effect_alias(effect_symbol, effect_tag_name, "a", var_a,
                                       Variable(var_a), vs + 2, iv1)
        effect_b == build_effect_alias(effect_symbol, effect_tag_name, "b", var_b,
                                       Variable(var_b), vs + 3,
                                       effect_a.introduced_variables)
        closure_var1 == vs + 4
        iv2 == insert_wildcard(effect_b.introduced_variables, closure_var1)
        a_to_b == Function(<<Variable(var_a)>>, Variable(closure_var1), Variable(var_b))
        closure_var2 == vs + 5
        iv3 == insert_wildcard(iv2, closure_var2)
    IN  SomeAnnotation(Function(<<effect_a.typ, a_to_b>>, Variable(closure_var2),
                                effect_b.typ), iv3)

\* fn build_effect_map (effect_module.rs 229-439)
build_effect_map(effect_symbol, effect_tag_name, vs) ==
    LET thunk_symbol == Introduced("effect_map_thunk")
        mapper_symbol == Introduced("effect_map_mapper")
        map_symbol == Introduced("map")
        the_force_thunk_call == force_thunk_call(thunk_symbol, vs)
        the_mapper_call == mapper_call(mapper_symbol, the_force_thunk_call, vs + 4)
        inner_closure_symbol == Introduced("effect_map_inner")
        inner_closure == map_inner_closure(inner_closure_symbol, thunk_symbol, mapper_symbol,
                                           the_mapper_call, vs + 8)
        arguments == effect_and_function_arguments(effect_tag_name, thunk_symbol,
                                                   mapper_symbol, vs + 17)
        body == map_body(effect_tag_name, inner_closure, vs + 22)
        function_var == vs + 25
        map_closure == ClosureData(function_var, vs + 26, vs + 27, vs + 28, map_symbol, <<>>,
                                   "NotRecursive", arguments, AtZero(body))
        def_annotation == map_annotation(effect_symbol, effect_tag_name, vs + 29)
    IN  Built(map_symbol,
              Def(AtZero(PIdentifier(map_symbol)), AtZero(map_closure), function_var,
                  [s \in {map_symbol} |-> function_var], def_annotation),
              vs + 35,
              <<"effect_map_thunk", "effect_map_mapper", "map", "effect_map_inner">>)

(***************************************************************************)
(* build_effect_after                                                      *)
(***************************************************************************)
\* to_effect_call that leaves the continuation out: the forced value as it is
to_effect_call_NoContinuation(to_effect_symbol, the_force_thunk_call, vs) ==
    the_force_thunk_call

\* `toEffect (thunk {})` (effect_module.rs 496-507)
to_effect_call(to_effect_symbol, the_force_thunk_call, vs) ==
    ExprCall(<<vs, AtZero(ExprVar(to_effect_symbol)), vs + 1, vs + 2>>,
             <<<<vs + 3, AtZero(the_force_thunk_call)>>>>)

\* Effect.after : Effect a, (a -> Effect b) -> Effect b (effect_module.rs 541-592)
after_annotation(effect_symbol, effect_tag_name, vs) ==
    LET var_a == vs
        var_b == vs + 1
        iv1 == insert_named(insert_named(NoIntroduced, "a", var_a), "b", var_b)
        effect_a == build_effect_alias(effect_symbol, effect_tag_name, "a", var_a,
                                       Variable(var_a), vs + 2, iv1)
        effect_b == build_effect_alias(effect_symbol, effect_tag_name, "b", var_b,
                                       Variable(var_b), vs + 3,
                                       effect_a.introduced_variables)
        closure_var1 == vs + 4
        iv2 == insert_wildcard(effect_b.introduced_variables, closure_var1)
        a_to_effect_b == Function(<<Variable(var_a)>>, Variable(closure_var1), effect_b.typ)
        closure_var2 == vs + 5
        iv3 == insert_wildcard(iv2, closure_var2)
    IN  SomeAnnotation(Function(<<effect_a.typ, a_to_effect_b>>, Variable(closure_var2),
                                effect_b.typ), iv3)

\* the closure bound to after (effect_module.rs 528-539)
after_closure(after_symbol, arguments, the_to_effect_call, vs) ==
    ClosureData(vs, vs + 1, vs + 2, vs + 3, after_symbol, <<>>, "NotRecursive",
                arguments, AtZero(the_to_effect_call))

\* fn build_effect_after (effect_module.rs 441-606)
build_effect_after(effect_symbol, effect_tag_name, vs) ==
    LET thunk_symbol == Introduced("effect_after_thunk")
        to_effect_symbol == Introduced("effect_after_toEffect")
        after_symbol == Introduced("after")
        the_force_thunk_call == force_thunk_call(thunk_symbol, vs)
        the_to_effect_call == to_effect_call(to_effect_symbol, the_force_thunk_call, vs + 4)
        arguments == effect_and_function_arguments(effect_tag_name, thunk_symbol,
                                                   to_effect_symbol, vs + 8)
        function_var == vs + 13
        the_closure == after_closure(after_symbol, arguments, the_to_effect_call, vs + 13)
        def_annotation == after_annotation(effect_symbol, effect_tag_name, vs + 17)
    IN  Built(after_symbol,
              Def(AtZero(PIdentifier(after_symbol)), AtZero(the_closure), function_var,
                  [s \in {after_symbol} |-> function_var], def_annotation),
              vs + 23,
              <<"effect_after_thunk", "effect_after_toEffect", "after">>)

(***************************************************************************)
(* build_effect_forever                                                    *)
(***************************************************************************)
\* wrap_in_effect_thunk whose closure captures nothing
wrap_in_effect_thunk_NoCapture(body, effect_tag_name, closure_name, captured_symbols, vs) ==
    LET w == vs + Len(captured_symbols)
        const_closure ==
            ClosureData(w + 3, w + 4, w + 5, w + 6, closure_name, <<>>, "NotRecursive",
                        <<<<w, AtZero(empty_record_pattern(w + 1))>>>>, AtZero(body))
    IN  ExprTag(w + 7, w + 8, effect_tag_name, <<<<w + 9, AtZero(const_closure)>>>>)

\* fn wrap_in_effect_thunk (effect_module.rs 608-649); the captured symbols get
\* the first fresh variables
wrap_in_effect_thunk(body, effect_tag_name, closure_name, captured_symbols, vs) ==
    LET n == Len(captured_symbols)
        captured == [i \in 1..n |-> <<captured_symbols[i], vs + i - 1>>]
        w == vs + n
        const_closure ==
            ClosureData(w + 3, w + 4, w + 5, w + 6, closure_name, captured, "NotRecursive",
                        <<<<w, AtZero(empty_record_pattern(w + 1))>>>>, AtZero(body))
    IN  ExprTag(w + 7, w + 8, effect_tag_name, <<<<w + 9, AtZero(const_closure)>>>>)

\* force_effect that binds the thunk and returns it without calling it
force_effect_NoCall(effect, effect_tag_name, thunk_symbol, vs) ==
    ExprLetNonRec(Def(AtZero(PAppliedTag(vs, vs + 1, effect_tag_name,
                                         <<<<vs + 2, AtZero(PIdentifier(thunk_symbol))>>>>)),
                      AtZero(effect), vs + 3, EmptyMap, NoAnnotation),
                  AtZero(ExprVar(thunk_symbol)), vs + 8)

\* fn force_effect (effect_module.rs 651-698)
force_effect(effect, effect_tag_name, thunk_symbol, vs) ==
    LET whole_var == vs
        ext_var == vs + 1
        thunk_var == vs + 2
        pattern == PAppliedTag(whole_var, ext_var, effect_tag_name,
                               <<<<thunk_var, AtZero(PIdentifier(thunk_symbol))>>>>)
        def == Def(AtZero(pattern), AtZero(effect), vs + 3, EmptyMap, NoAnnotation)
        ret_var == vs + 4
        the_call == ExprCall(<<vs + 5, AtZero(ExprVar(thunk_symbol)), vs + 6, ret_var>>,
                             <<<<vs + 7, AtZero(ExprEmptyRecord)>>>>)
    IN  ExprLetNonRec(def, AtZero(the_call), vs + 8)

\* fn build_effect_forever_inner_body (effect_module.rs 899-1012)
build_effect_forever_inner_body(effect_tag_name, forever_symbol, effect, vs) ==
    LET thunk1_symbol == Introduced("thunk1")
        thunk2_symbol == Introduced("thunk2")
        thunk_from_effect ==
            Def(AtZero(PAppliedTag(vs, vs + 1, effect_tag_name,
                                   <<<<vs + 2, AtZero(PIdentifier(thunk1_symbol))>>>>)),
                AtZero(ExprVar(effect)), vs + 3, EmptyMap, NoAnnotation)
        ret_var == vs + 4
        the_force_thunk_call ==
            AtZero(ExprCall(<<vs + 5, AtZero(ExprVar(thunk1_symbol)), vs + 6, ret_var>>,
                            <<<<vs + 7, AtZero(ExprEmptyRecord)>>>>))
        force_thunk1 ==
            Def(AtZero(PUnderscore), the_force_thunk_call, vs + 8, EmptyMap, NoAnnotation)
        forever_effect ==
            ExprCall(<<vs + 9, AtZero(ExprVar(forever_symbol)), vs + 10, vs + 11>>,
                     <<<<vs + 12, AtZero(ExprVar(effect))>>>>)
        force_thunk2 ==
            AtZero(force_effect(forever_effect, effect_tag_name, thunk2_symbol, vs + 13))
    IN  ExprLetNonRec(thunk_from_effect,
                      AtZero(ExprLetNonRec(force_thunk1, force_thunk2, vs + 22)),
                      vs + 23)

\* build_effect_forever_body whose inner body calls the inner closure's own
\* name in place of forever
build_effect_forever_body_CallsInner(effect_tag_name, forever_symbol, effect, vs) ==
    LET closure_name == Introduced("forever_inner")
        inner_body == build_effect_forever_inner_body(effect_tag_name, closure_name,
                                                      effect, vs)
    IN  wrap_in_effect_thunk(inner_body, effect_tag_name, closure_name, <<effect>>, vs + 24)

\* fn build_effect_forever_body (effect_module.rs 861-897)
build_effect_forever_body(effect_tag_name, forever_symbol, effect, vs) ==
    LET closure_name == Introduced("forever_inner")
        inner_body == build_effect_forever_inner_body(effect_tag_name, forever_symbol,
                                                      effect, vs)
    IN  wrap_in_effect_thunk(inner_body, effect_tag_name, closure_name, <<effect>>, vs + 24)

\* the signature of forever (effect_module.rs 801-845)
forever_annotation(effect_symbol, effect_tag_name, vs) ==
    LET var_a == vs
        iv1 == insert_named(NoIntroduced, "a", var_a)
        effect_a_1 == build_effect_alias(effect_symbol, effect_tag_name, "a", var_a,
                                         Variable(var_a), vs + 1, iv1)
        effect_a_2 == build_effect_alias(effect_symbol, effect_tag_name, "a", var_a,
                                         Variable(var_a), vs + 2,
                                         effect_a_1.introduced_variables)
        closure_var == vs + 3
        iv2 == insert_wildcard(effect_a_2.introduced_variables, closure_var)
    IN  SomeAnnotation(Function(<<effect_a_1.typ>>, Variable(closure_var), effect_a_2.typ),
                       iv2)

\* fn build_effect_forever (effect_module.rs 700-859)
build_effect_forever(effect_symbol, effect_tag_name, vs) ==
    LET forever_symbol == Introduced("forever")
        effect == Introduced("effect")
        body == build_effect_forever_body(effect_tag_name, forever_symbol, effect, vs)
        arguments == <<<<vs + 35, AtZero(PIdentifier(effect))>>>>
        function_var == vs + 36
        the_closure == ClosureData(vs + 37, vs + 38, vs + 39, vs + 40, forever_symbol, <<>>,
                                   "Recursive", arguments, AtZero(body))
        def_annotation == forever_annotation(effect_symbol, effect_tag_name, vs + 41)
    IN  Built(forever_symbol,
              Def(AtZero(PIdentifier(forever_symbol)), AtZero(the_closure), function_var,
                  [s \in {forever_symbol} |-> function_var], def_annotation),
              vs + 45,
              <<"forever", "effect", "forever_inner", "thunk1", "thunk2">>)

(***************************************************************************)
(* build_effect_builtins                                                   *)
(***************************************************************************)
\* const BUILTIN_EFFECT_FUNCTIONS: the names, in order
BUILTIN_EFFECT_FUNCTIONS == <<"after", "map", "always", "forever">>

\* const RECURSIVE_BUILTIN_EFFECT_FUNCTIONS
RECURSIVE_BUILTIN_EFFECT_FUNCTIONS == {"forever"}

\* the builder BUILTIN_EFFECT_FUNCTIONS pairs with a name
Builder(name, effect_symbol, effect_tag_name, vs) ==
    CASE name = "after" -> build_effect_after(effect_symbol, effect_tag_name, vs)
      [] name = "map" -> build_effect_map(effect_symbol, effect_tag_name, vs)
      [] name = "always" -> build_effect_always(effect_symbol, effect_tag_name, vs)
      [] name = "forever" -> build_effect_forever(effect_symbol, effect_tag_name, vs)

\* Declaration::Declare / Declaration::DeclareRec
Declare(def) == [decl |-> "Declare", defs |-> <<def>>]
DeclareRec(defs) == [decl |-> "DeclareRec", defs |-> defs]

\* scope.introduce(..).unwrap() over the identifiers of a builder: it fails on
\* an identifier the scope already holds
CanIntroduce(sc, idents) ==
    /\ \A i \in 1..Len(idents) : idents[i] \notin sc
    /\ \A i, j \in 1..Len(idents) : i # j => idents[i] # idents[j]

\* DeclarationFor that declares every def as non-recursive
DeclarationFor_NeverRec(name, def) == Declare(def)

\* the declaration pushed for a builder's def (effect_module.rs 70-75)
DeclarationFor(name, def) ==
    IF name \in RECURSIVE_BUILTIN_EFFECT_FUNCTIONS THEN DeclareRec(<<def>>) ELSE Declare(def)

RECURSIVE build_effect_builtins(_, _, _)
\* the loop of fn build_effect_builtins from the i-th builder on
\* (effect_module.rs 59-76); B holds scope, var_store, exposed_symbols,
\* declarations and whether an unwrap failed
build_effect_builtins(B, effect_symbol, i) ==
    IF i > Len(BUILTIN_EFFECT_FUNCTIONS) \/ B.panicked THEN B
    ELSE LET name == BUILTIN_EFFECT_FUNCTIONS[i]
             b == Builder(name, effect_symbol, TagPrivate(effect_symbol), B.var_store)
         IN  IF ~CanIntroduce(B.scope, b.idents)
             THEN [B EXCEPT !.panicked = TRUE]
             ELSE build_effect_builtins(
                      [scope |-> B.scope \cup {b.idents[k] : k \in 1..Len(b.idents)},
                       var_store |-> b.var_store,
                       exposed_symbols |-> B.exposed_symbols \cup {b.symbol},
                       declarations |-> Append(B.declarations, DeclarationFor(name, b.def)),
                       panicked |-> FALSE],
                      effect_symbol, i + 1)

(***************************************************************************)
(* The meaning of the definitions built: values, and a machine that        *)
(* evaluates the canonical AST one step at a time, strictly, a function    *)
(* before its arguments and the arguments from left to right.              *)
(***************************************************************************)
IntV(n) == [v |-> "Int", n |-> n]
RecordV == [v |-> "EmptyRecord"]
TagV(name, args) == [v |-> "Tag", name |-> name, args |-> args]
ClosureV(name, arguments, loc_body, env) ==
    [v |-> "Closure", name |-> name, arguments |-> arguments, loc_body |-> loc_body,
     env |-> env]
\* a thunk of the host: called with {}, it returns result
HostThunk(id, result) == [v |-> "HostThunk", id |-> id, result |-> result]
\* a function of the caller, known by name
HostFn(name, tag_name) == [v |-> "HostFn", name |-> name, tag_name |-> tag_name]

\* f overridden by g
MapMerge(f, g) ==
    [x \in (DOMAIN f) \cup (DOMAIN g) |-> IF x \in DOMAIN g THEN g[x] ELSE f[x]]

\* the value of a symbol: a local of the environment, or else a top-level def
Lookup(env, globals, sym) ==
    IF sym \in DOMAIN env THEN <<env[sym]>>
    ELSE IF sym \in DOMAIN globals THEN <<globals[sym]>>
    ELSE <<>>

RECURSIVE Match(_, _)
RECURSIVE MatchAll(_, _, _)

\* the bindings of the argument patterns ps against the values vs
MatchAll(ps, vs, acc) ==
    IF ps = <<>> THEN <<acc>>
    ELSE LET b == Match(ps[1][2].value, vs[1])
         IN  IF b = <<>> THEN <<>>
             ELSE MatchAll(Tail(ps), Tail(vs), MapMerge(acc, b[1]))

\* the bindings of a pattern against a value, or <<>> when it does not match
Match(p, val) ==
    CASE p.pat = "Identifier" -> <<[s \in {p.symbol} |-> val]>>
      [] p.pat = "Underscore" -> <<EmptyMap>>
      [] p.pat = "RecordDestructure" ->
            IF val.v = "EmptyRecord" /\ p.destructs = <<>> THEN <<EmptyMap>> ELSE <<>>
      [] p.pat = "AppliedTag" ->
            IF val.v = "Tag" /\ val.name = p.tag_name /\ Len(val.args) = Len(p.arguments)
            THEN MatchAll(p.arguments, val.args, EmptyMap)
            ELSE <<>>

\* the states of the machine's control
EvalC(e, env) == [mode |-> "eval", expr |-> e, env |-> env]
ApplyC(fn, args) == [mode |-> "apply", fn |-> fn, args |-> args]
StuckC(why) == [mode |-> "stuck", why |-> why]

\* a frame of the machine's stack: what is left to do with the value awaited,
\* in the environment env; done are the values of the arguments so far and
\* rest the arguments still to evaluate
Frame(frame, head, done, rest, env) ==
    [frame |-> frame, head |-> head, done |-> done, rest |-> rest, env |-> env]

\* the machine after a step
Stepped(c, k) == [ctl |-> c, kont |-> k]

\* a closure expression becomes a closure value that holds the values of the
\* symbols it captures, and of no others
MakeClosure(e, env, globals) ==
    LET syms == {e.captured_symbols[i][1] : i \in 1..Len(e.captured_symbols)}
    IN  IF \E s \in syms : Lookup(env, globals, s) = <<>>
        THEN StuckC("a captured symbol is not in scope")
        ELSE RetC(ClosureV(e.name, e.arguments, e.loc_body,
                           [s \in syms |-> Lookup(env, globals, s)[1]]))

\* the functions of the caller
HostApply(fn, arg) ==
    IF arg.v # "Int" THEN StuckC("a host function applied to no number")
    ELSE CASE fn.name = "succ" -> RetC(IntV(arg.n + 1))
           [] fn.name = "double" -> RetC(IntV(2 * arg.n))
           [] fn.name = "then" ->
                 RetC(TagV(fn.tag_name, <<HostThunk("E2", IntV(arg.n + 10))>>))

\* the step of an expression under evaluation
StepEval(e, env, k, globals) ==
    CASE e.expr = "Var" ->
            LET found == Lookup(env, globals, e.symbol)
            IN  IF found = <<>> THEN Stepped(StuckC("a symbol is not in scope"), k)
                ELSE Stepped(RetC(found[1]), k)
      [] e.expr = "EmptyRecord" -> Stepped(RetC(RecordV), k)
      [] e.expr = "Closure" -> Stepped(MakeClosure(e, env, globals), k)
      [] e.expr = "Tag" ->
            IF e.arguments = <<>> THEN Stepped(RetC(TagV(e.name, <<>>)), k)
            ELSE Stepped(EvalC(e.arguments[1][2].value, env),
                         <<Frame("TagArgs", e.name, <<>>, Tail(e.arguments), env)>> \o k)
      [] e.expr = "Call" ->
            Stepped(EvalC(e.boxed[2].value, env),
                    <<Frame("CallFn", NoValue, <<>>, e.arguments, env)>> \o k)
      [] e.expr = "LetNonRec" ->
            Stepped(EvalC(e.def.loc_expr.value, env),
                    <<Frame("LetBody", e.def.loc_pattern.value, <<>>, <<e.body>>, env)>> \o k)

\* the step of a value returned to the top frame
StepRet(val, k) ==
    LET f == Head(k)
        rest == Tail(k)
    IN  CASE f.frame = "CallFn" ->
                IF f.rest = <<>> THEN Stepped(ApplyC(val, <<>>), rest)
                ELSE Stepped(EvalC(f.rest[1][2].value, f.env),
                             <<Frame("CallArgs", val, <<>>, Tail(f.rest), f.env)>> \o rest)
          [] f.frame = "CallArgs" ->
                IF f.rest = <<>> THEN Stepped(ApplyC(f.head, Append(f.done, val)), rest)
                ELSE Stepped(EvalC(f.rest[1][2].value, f.env),
                             <<Frame("CallArgs", f.head, Append(f.done, val), Tail(f.rest),
                                     f.env)>> \o rest)
          [] f.frame = "TagArgs" ->
                IF f.rest = <<>>
                THEN Stepped(RetC(TagV(f.head, Append(f.done, val))), rest)
                ELSE Stepped(EvalC(f.rest[1][2].value, f.env),
                             <<Frame("TagArgs", f.head, Append(f.done, val), Tail(f.rest),
                                     f.env)>> \o rest)
          [] f.frame = "LetBody" ->
                LET b == Match(f.head, val)
                IN  IF b = <<>> THEN Stepped(StuckC("a pattern does not match"), rest)
                    ELSE Stepped(EvalC(f.rest[1].value, MapMerge(f.env, b[1])), rest)

\* the step of a function applied to its arguments: the body of a closure runs
\* in the environment the closure holds, extended by the arguments, and on the
\* stack of the call
StepApply(fn, args, k) ==
    CASE fn.v = "Closure" ->
            IF Len(args) # Len(fn.arguments)
            THEN Stepped(StuckC("the number of arguments is wrong"), k)
            ELSE LET b == MatchAll(fn.arguments, args, EmptyMap)
                 IN  IF b = <<>>
                     THEN Stepped(StuckC("an argument pattern does not match"), k)
                     ELSE Stepped(EvalC(fn.loc_body.value, MapMerge(fn.env, b[1])), k)
      [] fn.v = "HostThunk" ->
            IF args = <<RecordV>> THEN Stepped(RetC(fn.result), k)
            ELSE Stepped(StuckC("a thunk called with no empty record"), k)
      [] fn.v = "HostFn" ->
            IF Len(args) = 1 THEN Stepped(HostApply(fn, args[1]), k)
            ELSE Stepped(StuckC("the number of arguments is wrong"), k)
      [] OTHER -> Stepped(StuckC("no function is applied"), k)

\* one step of the machine
Step(c, k, globals) ==
    CASE c.mode = "eval" -> StepEval(c.expr, c.env, k, globals)
      [] c.mode = "ret" -> StepRet(c.val, k)
      [] c.mode = "apply" -> StepApply(c.fn, c.args, k)

\* the top-level closures of a declaration list, by symbol
Globals(decls) ==
    LET ds == {d \in {decls[i].defs[1] : i \in 1..Len(decls)} :
                   d.loc_pattern.value.pat = "Identifier" /\ d.loc_expr.value.expr = "Closure"}
    IN  [s \in {d.loc_pattern.value.symbol : d \in ds} |->
            LET d == CHOOSE x \in ds : x.loc_pattern.value.symbol = s
            IN  ClosureV(d.loc_expr.value.name, d.loc_expr.value.arguments,
                         d.loc_expr.value.loc_body, EmptyMap)]

(***************************************************************************)
(* SpecEff: build_effect_builtins on a module, then one of the combinators *)
(* applied by a caller and the effect it returned forced.                  *)
(***************************************************************************)
\* a declaration of the module's own, there before the builtins are added
UserDef ==
    Def(AtZero(PIdentifier(Introduced("main"))), AtZero(ExprEmptyRecord), 1,
        [s \in {Introduced("main")} |-> 1], NoAnnotation)

\* the modules build_effect_builtins is run on: scope, exposed symbols and
\* declarations so far
ModuleChoices ==
    {[scope |-> {}, exposed_symbols |-> {}, declarations |-> <<>>],
     [scope |-> {"main"}, exposed_symbols |-> {Introduced("main")},
      declarations |-> <<Declare(UserDef)>>],
     [scope |-> {"main", "thunk1"}, exposed_symbols |-> {Introduced("main")},
      declarations |-> <<Declare(UserDef)>>]}

\* the numbers a host thunk may return
NumberChoices == {0, 3}

\* an effect of the host: the effect tag around a host thunk that returns val
HostEffect(tag_name, val) == TagV(tag_name, <<HostThunk("E", val)>>)

RunChoices(tag_name, globals) ==
    {Run("always", <<val>>) :
        val \in {IntV(n) : n \in NumberChoices} \cup {RecordV, HostEffect(tag_name, IntV(3))}}
    \cup {Run("map", <<e, f>>) :
        e \in {HostEffect(tag_name, IntV(n)) : n \in NumberChoices},
        f \in {HostFn("succ", tag_name), HostFn("double", tag_name)}}
    \cup {Run("after", <<e, k>>) :
        e \in {HostEffect(tag_name, IntV(n)) : n \in NumberChoices},
        k \in {HostFn("then", tag_name), globals[Introduced("always")]}}
    \cup {Run("forever", <<e>>) : e \in {HostEffect(tag_name, IntV(n)) : n \in NumberChoices}}

\* the variables of constrain_imports but var_store, which the builders share
conRest == <<imports, import_idx, def_types, rigid_vars, con_pc>>

InitEff ==
    /\ PreIdle
    /\ imports = <<>>
    /\ import_idx = 1
    /\ def_types = <<>>
    /\ rigid_vars = <<>>
    /\ con_pc = "idle"
    /\ var_store \in VarStoreChoices
    /\ \E md \in ModuleChoices :
        /\ scope = md.scope
        /\ exposed_symbols = md.exposed_symbols
        /\ declarations = md.declarations
    /\ the_effect_symbol \in {Sym(EffectHome, "Effect"), Sym(EffectHome, "Task")}
    /\ eff_pc = "start"
    /\ MachineIdle

\* fn build_effect_builtins (effect_module.rs 51-84)
BuildEffectBuiltins ==
    /\ eff_pc = "start"
    /\ LET B == build_effect_builtins(
                    [scope |-> scope, var_store |-> var_store,
                     exposed_symbols |-> exposed_symbols, declarations |-> declarations,
                     panicked |-> FALSE],
                    the_effect_symbol, 1)
       IN  /\ scope' = B.scope
           /\ var_store' = B.var_store
           /\ exposed_symbols' = B.exposed_symbols
           /\ declarations' = B.declarations
           /\ eff_pc' = IF B.panicked THEN "panicked" ELSE "built"
    /\ UNCHANGED <<the_effect_symbol, ctl, kont, run, effect_value, forced_result, forces, forced,
                   called, preVars, conRest>>

\* a caller applies one of the combinators to argument values
ApplyCombinator ==
    /\ eff_pc = "built"
    /\ \E r \in RunChoices(TagPrivate(the_effect_symbol), Globals(declarations)) :
        /\ run' = r
        /\ ctl' = ApplyC(Globals(declarations)[Introduced(r.combinator)], r.args)
    /\ kont' = <<>>
    /\ eff_pc' = "applying"
    /\ UNCHANGED <<scope, exposed_symbols, declarations, the_effect_symbol, effect_value, forced_result,
                   forces, forced, called, var_store, preVars, conRest>>

\* the machine takes a step; the forcings of a host thunk are counted up to
\* MaxForced, and the thunk is forced on after that
MachineStep ==
    /\ eff_pc \in {"applying", "forcing"}
    /\ ctl.mode # "stuck"
    /\ ~(ctl.mode = "ret" /\ kont = <<>>)
    /\ LET n == Step(ctl, kont, Globals(declarations))
           \* the step is a call of the host that returns
           host == ctl.mode = "apply" /\ n.ctl.mode = "ret"
       IN  /\ ctl' = n.ctl
           /\ kont' = n.kont
           /\ forced' = IF host /\ ctl.fn.v = "HostThunk" /\ forced[ctl.fn.id] < MaxForced
                        THEN [forced EXCEPT ![ctl.fn.id] = @ + 1] ELSE forced
           /\ called' = IF host /\ ctl.fn.v = "HostFn"
                        THEN [called EXCEPT ![ctl.fn.name] = @ + 1] ELSE called
    /\ UNCHANGED <<scope, exposed_symbols, declarations, the_effect_symbol, eff_pc, run,
                   effect_value, forced_result, forces, var_store, preVars, conRest>>

\* the application returned: its value is the effect
FinishApply ==
    /\ eff_pc = "applying"
    /\ ctl.mode = "ret"
    /\ kont = <<>>
    /\ effect_value' = ctl.val
    /\ eff_pc' = "applied"
    /\ UNCHANGED <<scope, exposed_symbols, declarations, the_effect_symbol, ctl, kont, run,
                   forced_result, forces, forced, called, var_store, preVars, conRest>>

\* the caller forces the effect: it calls the thunk under the tag with {}
ForceEffect ==
    /\ eff_pc \in {"applied", "forced"}
    /\ forces < MaxForces
    /\ effect_value.v = "Tag"
    /\ Len(effect_value.args) = 1
    /\ ctl' = ApplyC(effect_value.args[1], <<RecordV>>)
    /\ kont' = <<>>
    /\ forces' = forces + 1
    /\ eff_pc' = "forcing"
    /\ UNCHANGED <<scope, exposed_symbols, declarations, the_effect_symbol, run, effect_value,
                   forced_result, forced, called, var_store, preVars, conRest>>

\* the thunk returned: its value is the result of the effect
FinishForce ==
    /\ eff_pc = "forcing"
    /\ ctl.mode = "ret"
    /\ kont = <<>>
    /\ forced_result' = ctl.val
    /\ eff_pc' = "forced"
    /\ UNCHANGED <<scope, exposed_symbols, declarations, the_effect_symbol, ctl, kont, run,
                   effect_value, forces, forced, called, var_store, preVars, conRest>>

NextEff ==
    \/ BuildEffectBuiltins
    \/ ApplyCombinator
    \/ MachineStep
    \/ FinishApply
    \/ ForceEffect
    \/ FinishForce

SpecEff == InitEff /\ [][NextEff]_vars

\* the machine does not stop while it has a step to take
SpecEffFair == SpecEff /\ WF_vars(MachineStep)

(***************************************************************************)
(* build_host_exposed_def                                                  *)
(***************************************************************************)
\* Expr::ForeignCall { foreign_symbol, args, ret_var }
ExprForeignCall(foreign_symbol, args, ret_var) ==
    [expr |-> "ForeignCall", foreign_symbol |-> foreign_symbol, args |-> args,
     ret_var |-> ret_var]

RECURSIVE shallow_dealias(_)
\* Type::shallow_dealias: the type under the aliases around it
shallow_dealias(t) == IF t.tag = "Alias" THEN shallow_dealias(t.actual) ELSE t

\* FunctionArm whose thunk captures its arguments in the reverse order
FunctionArm_ReversedCapture(sym, ident, effect_tag_name, args, vs) ==
    LET N == Len(args)
        arg_symbol(i) == Introduced("closure_arg_" \o ident \o "_" \o ToString(i - 1))
        w == vs + N
        low_level_call ==
            ExprForeignCall("roc_fx_" \o ident,
                            [i \in 1..N |-> <<vs + i - 1, ExprVar(arg_symbol(i))>>], w)
        effect_closure ==
            ClosureData(w + 1, w + 2, w + 3, w + 4, Introduced("effect_closure_" \o ident),
                        [i \in 1..N |-> <<arg_symbol(N + 1 - i), vs + N - i>>],
                        "NotRecursive",
                        <<<<w + 5, AtZero(empty_record_pattern(w + 6))>>>>,
                        AtZero(low_level_call))
        body == ExprTag(w + 8, w + 9, effect_tag_name, <<<<w + 10, AtZero(effect_closure)>>>>)
    IN  [expr |-> ClosureData(w + 11, w + 12, w + 13, w + 14, sym, <<>>, "NotRecursive",
                              [i \in 1..N |-> <<vs + i - 1, AtZero(PIdentifier(arg_symbol(i)))>>],
                              AtZero(body)),
         var_store |-> w + 15,
         idents |-> [i \in 1..N + 1 |->
                        IF i <= N THEN "closure_arg_" \o ident \o "_" \o ToString(i - 1)
                        ELSE "effect_closure_" \o ident]]

\* the arm of a function type of the arguments args (effect_module.rs
\* 1034-1111): the closure, the allocator after it and the identifiers
\* introduced, in order
FunctionArm(sym, ident, effect_tag_name, args, vs) ==
    LET N == Len(args)
        arg_symbol(i) == Introduced("closure_arg_" \o ident \o "_" \o ToString(i - 1))
        w == vs + N
        low_level_call ==
            ExprForeignCall("roc_fx_" \o ident,
                            [i \in 1..N |-> <<vs + i - 1, ExprVar(arg_symbol(i))>>], w)
        effect_closure ==
            ClosureData(w + 1, w + 2, w + 3, w + 4, Introduced("effect_closure_" \o ident),
                        [i \in 1..N |-> <<arg_symbol(i), vs + i - 1>>], "NotRecursive",
                        <<<<w + 5, AtZero(empty_record_pattern(w + 6))>>>>,
                        AtZero(low_level_call))
        body == ExprTag(w + 8, w + 9, effect_tag_name, <<<<w + 10, AtZero(effect_closure)>>>>)
    IN  [expr |-> ClosureData(w + 11, w + 12, w + 13, w + 14, sym, <<>>, "NotRecursive",
                              [i \in 1..N |-> <<vs + i - 1, AtZero(PIdentifier(arg_symbol(i)))>>],
                              AtZero(body)),
         var_store |-> w + 15,
         idents |-> [i \in 1..N + 1 |->
                        IF i <= N THEN "closure_arg_" \o ident \o "_" \o ToString(i - 1)
                        ELSE "effect_closure_" \o ident]]

\* NotFunctionArm with the closure over arguments of the function arm around it
NotFunctionArm_Enclosed(sym, ident, effect_tag_name, vs) ==
    FunctionArm(sym, ident, effect_tag_name, <<>>, vs)

\* the arm of any other type (effect_module.rs 1113-1160)
NotFunctionArm(sym, ident, effect_tag_name, vs) ==
    LET low_level_call == ExprForeignCall("roc_fx_" \o ident, <<>>, vs)
        the_empty_record_pattern == PRecordDestructure(vs + 1, vs + 2, <<>>)
        effect_closure ==
            ClosureData(vs + 3, vs + 4, vs + 5, vs + 6, Introduced("effect_closure_" \o ident),
                        <<>>, "NotRecursive",
                        <<<<vs + 7, AtZero(the_empty_record_pattern)>>>>,
                        AtZero(low_level_call))
    IN  [expr |-> ExprTag(vs + 8, vs + 9, effect_tag_name,
                          <<<<vs + 10, AtZero(effect_closure)>>>>),
         var_store |-> vs + 11,
         idents |-> <<"effect_closure_" \o ident>>]

\* fn build_host_exposed_def (effect_module.rs 1014-1179): the def, the
\* allocator after it and the identifiers introduced, in order
build_host_exposed_def(sym, ident, effect_tag_name, vs, annotation) ==
    LET expr_var == vs
        typ == shallow_dealias(annotation.typ)
        def_body == IF typ.tag = "Function"
                    THEN FunctionArm(sym, ident, effect_tag_name, typ.args, vs + 1)
                    ELSE NotFunctionArm(sym, ident, effect_tag_name, vs + 1)
        def_annotation ==
            [SomeAnnotation(annotation.typ, annotation.introduced_variables)
                EXCEPT !.aliases = annotation.aliases]
    IN  Built(sym,
              Def(AtZero(PIdentifier(sym)), AtZero(def_body.expr), expr_var,
                  [s \in {sym} |-> expr_var], def_annotation),
              def_body.var_store, def_body.idents)

(***************************************************************************)
(* SpecHost: build_host_exposed_def called for the host functions of a     *)
(* platform, one after the other; the caller declares each def.            *)
(***************************************************************************)
\* roc_can::annotation::Annotation
Annotation(typ, introduced_variables, aliases) ==
    [typ |-> typ, introduced_variables |-> introduced_variables, aliases |-> aliases]

\* the annotations of the host functions: functions of one and of two
\* arguments, an alias of a function, the effect alias, an alias of the
\* effect alias and the empty record
AnnotationChoices(effect_symbol, effect_tag_name) ==
    LET effect == build_effect_alias(effect_symbol, effect_tag_name, "a", 1, EmptyRec, 2,
                                     insert_named(NoIntroduced, "a", 1))
        one == Function(<<EmptyRec>>, Variable(3), effect.typ)
        two == Function(<<Variable(1), EmptyRec>>, Variable(3), effect.typ)
        iv == insert_wildcard(effect.introduced_variables, 3)
        read == Sym(EffectHome, "Read")
        aliases == [s \in {read} |-> Alias(RegionZero, effect.typ)]
    IN  {Annotation(one, iv, EmptyMap),
         Annotation(two, iv, EmptyMap),
         Annotation(TypeAlias(Sym(EffectHome, "Write"), <<>>, <<>>, one), iv, EmptyMap),
         Annotation(effect.typ, effect.introduced_variables, EmptyMap),
         Annotation(TypeAlias(read, <<>>, <<>>, effect.typ), effect.introduced_variables,
                    aliases),
         Annotation(EmptyRec, NoIntroduced, EmptyMap)}

InitHost ==
    /\ PreIdle
    /\ imports = <<>>
    /\ import_idx = 1
    /\ def_types = <<>>
    /\ rigid_vars = <<>>
    /\ con_pc = "idle"
    /\ var_store \in VarStoreChoices
    /\ scope \in {{}, {"main", "closure_arg_putLine_1"}}
    /\ exposed_symbols = {}
    /\ declarations = <<>>
    /\ the_effect_symbol \in {Sym(EffectHome, "Effect"), Sym(EffectHome, "Task")}
    /\ eff_pc = "host"
    /\ MachineIdle

\* fn build_host_exposed_def (effect_module.rs 1014-1179) for a host function
\* of the platform; an identifier that is in scope already makes it panic
BuildHostExposedDef ==
    /\ eff_pc = "host"
    /\ Len(declarations) < MaxHostDefs
    /\ \E ident \in {"putLine", "getLine"} :
       \E annotation \in AnnotationChoices(the_effect_symbol, TagPrivate(the_effect_symbol)) :
        LET b == build_host_exposed_def(Introduced(ident), ident,
                                        TagPrivate(the_effect_symbol), var_store, annotation)
        IN  IF CanIntroduce(scope, b.idents)
            THEN /\ scope' = scope \cup {b.idents[k] : k \in 1..Len(b.idents)}
                 /\ var_store' = b.var_store
                 /\ declarations' = Append(declarations, Declare(b.def))
                 /\ eff_pc' = "host"
            ELSE /\ eff_pc' = "panicked"
                 /\ UNCHANGED <<scope, var_store, declarations>>
    /\ UNCHANGED <<exposed_symbols, the_effect_symbol, ctl, kont, run, effect_value,
                   forced_result, forces, forced, called, preVars, conRest>>

NextHost == BuildHostExposedDef

SpecHost == InitHost /\ [][NextHost]_vars

(***************************************************************************)
(* Properties of pre_constrain_imports.                                    *)
(***************************************************************************)
\* the positions of the Imports made for a symbol
ImportsOf(s) == {i \in 1..Len(imported_symbols) : imported_symbols[i].loc_symbol.value = s}

\* the symbol belongs to a module that is neither builtin nor the home module
IsForeign(s) == ~is_builtin(s.module_id) /\ s.module_id # home

IsInvalidRef(s) ==
    /\ IsForeign(s)
    /\ s.module_id \in DOMAIN exposed_types
    /\ exposed_types[s.module_id].tag = "Invalid"

\* a builtin symbol absent from every builtin table
BuiltinMissing(s) ==
    /\ is_builtin(s.module_id)
    /\ s \notin DOMAIN stdlib.types
    /\ s \notin stdlib.applies
    /\ s \notin BuiltinAliases

\* a symbol of a foreign module that has no entry in the exposed-types table
ModuleMissing(s) == IsForeign(s) /\ s.module_id \notin DOMAIN exposed_types

\* a Valid entry that records a solved type for the symbol and no stored variable
StoredVarMissing(s) ==
    /\ IsForeign(s)
    /\ s.module_id \in DOMAIN exposed_types
    /\ exposed_types[s.module_id].tag = "Valid"
    /\ s \in DOMAIN exposed_types[s.module_id].solved_types
    /\ \A i \in 1..Len(exposed_types[s.module_id].stored_vars_by_symbol) :
           exposed_types[s.module_id].stored_vars_by_symbol[i][1] # s

\* the call aborted while it was processing s
AbortedAt(s) == pre_pc = "panicked" /\ symbol = s

\* C1: a referenced symbol of a foreign module whose entry is Invalid gets, once
\* the loop has processed it, exactly one Import, of the invalid-module error
\* type, none before, and the call never aborts while processing it.
Thm_C1 ==
    \A s \in references : IsInvalidRef(s) =>
        /\ ~AbortedAt(s)
        /\ s \in todo => ImportsOf(s) = {}
        /\ s \notin todo =>
            /\ Cardinality(ImportsOf(s)) = 1
            /\ \A i \in ImportsOf(s) :
                   imported_symbols[i] = Import(Loc(s, RegionZero), ErroneousInvalidModule)

\* C1 witness: a call returned that referenced a symbol of an Invalid module
\* next to a symbol of another module.
Wit_C1 ==
    /\ pre_pc = "returned"
    /\ \E s \in references : IsInvalidRef(s)
    /\ Len(imported_symbols) = 2

\* C2 as stated: the call aborts only for a builtin symbol absent from every
\* builtin table or for a foreign module without an entry; every other call
\* returns (here: is never found aborted, and can always take its next step).
Orig_C2 ==
    /\ pre_pc = "panicked" =>
           \E s \in references : BuiltinMissing(s) \/ ModuleMissing(s)
    /\ pre_pc = "loop" => ENABLED (LoopIteration \/ ReturnImports)

\* C2 amended: there is a third abort, the unwrap on the stored variable. The
\* call aborts only while processing a symbol that is a builtin absent from
\* every builtin table, or whose foreign module has no entry, or whose Valid
\* entry records a solved type and no stored variable; otherwise it goes on.
Thm_C2 ==
    /\ pre_pc = "panicked" =>
        /\ symbol \in references
        /\ \/ panic.kind = "builtin" /\ BuiltinMissing(symbol)
           \/ panic.kind = "module" /\ ModuleMissing(symbol)
           \/ panic.kind = "unwrap" /\ StoredVarMissing(symbol)
    /\ pre_pc # "panicked" =>
           \A s \in references \ todo :
               ~(BuiltinMissing(s) \/ ModuleMissing(s) \/ StoredVarMissing(s))
    /\ pre_pc = "loop" => ENABLED (LoopIteration \/ ReturnImports)

\* C2 witness: the call aborted on the unwrap although no referenced symbol is
\* a missing builtin or belongs to a module without an entry.
Wit_C2 ==
    /\ pre_pc = "panicked"
    /\ panic.kind = "unwrap"
    /\ \A s \in references : ~(BuiltinMissing(s) \/ ModuleMissing(s))

\* C3: when a referenced symbol belongs to a foreign module without an entry in
\* the exposed-types table, the call never returns, and once every reference
\* has been taken it has aborted.
Thm_C3 ==
    (\E s \in references : ModuleMissing(s)) =>
        /\ pre_pc # "returned"
        /\ todo = {} => pre_pc = "panicked"
        /\ \A s \in references \ todo : ModuleMissing(s) => AbortedAt(s)

\* C3 witness: the call aborted on the missing module after it had processed
\* another reference.
Wit_C3 ==
    /\ pre_pc = "panicked"
    /\ panic.kind = "module"
    /\ ModuleMissing(symbol)
    /\ Cardinality(references \ todo) = 2

\* C4: a referenced builtin symbol absent from the builtin-types table never
\* gets an Import, and the call aborts while processing it exactly when it is
\* in neither the applies set nor the builtin aliases.
Thm_C4 ==
    \A s \in references :
        (is_builtin(s.module_id) /\ s \notin DOMAIN stdlib.types) =>
            /\ ImportsOf(s) = {}
            /\ s \in todo => ~AbortedAt(s)
            /\ s \notin todo =>
                   (AbortedAt(s) <=> (s \notin stdlib.applies /\ s \notin BuiltinAliases))

\* C4 witness: a call returned that referenced two builtin symbols absent from
\* the builtin types, one an apply and one a builtin alias.
Wit_C4 ==
    /\ pre_pc = "returned"
    /\ stdlib.types = EmptyMap
    /\ {Sym("Num", "add"), Sym("Num", "Int")} \subseteq references
    /\ Sym("Num", "add") \in stdlib.applies

\* the module ids that own a referenced symbol
UsedModules == {s.module_id : s \in references}

\* C5: when the call returns, unused_imports is imported_modules without the
\* modules that own a referenced symbol, the regions kept.
Thm_C5 ==
    pre_pc = "returned" =>
        /\ DOMAIN unused_imports = (DOMAIN imported_modules) \ UsedModules
        /\ \A m \in DOMAIN unused_imports : unused_imports[m] = imported_modules[m]

\* C5 witness: a call returned with a builtin, the home and a foreign module
\* used and one candidate left unused.
Wit_C5 ==
    /\ pre_pc = "returned"
    /\ DOMAIN imported_modules = ModuleIds
    /\ Cardinality(DOMAIN unused_imports) = 2
    /\ home \in UsedModules
    /\ "Num" \in UsedModules

(***************************************************************************)
(* Properties of constrain_imports.                                        *)
(***************************************************************************)
RECURSIVE RigidNames(_)
\* the names of the named variables of a solved type
RigidNames(t) ==
    CASE t.tag = "Rigid" -> {t.name}
      [] t.tag = "Func" ->
            UNION {RigidNames(t.args[i]) : i \in DOMAIN t.args}
                \cup RigidNames(t.closure) \cup RigidNames(t.ret)
      [] t.tag = "Alias" ->
            UNION {RigidNames(t.args[i]) : i \in DOMAIN t.args} \cup RigidNames(t.actual)
      [] OTHER -> {}

RECURSIVE FlexIds(_)
\* the ids of the unnamed variables of a solved type
FlexIds(t) ==
    CASE t.tag = "Flex" -> {t.id}
      [] t.tag = "Func" ->
            UNION {FlexIds(t.args[i]) : i \in DOMAIN t.args}
                \cup FlexIds(t.closure) \cup FlexIds(t.ret)
      [] t.tag = "Alias" ->
            UNION {FlexIds(t.args[i]) : i \in DOMAIN t.args} \cup FlexIds(t.actual)
      [] OTHER -> {}

RECURSIVE WildcardCount(_)
RECURSIVE WildcardCountAll(_)
\* the number of wildcards of a list of solved types
WildcardCountAll(ts) ==
    IF ts = <<>> THEN 0 ELSE WildcardCount(Head(ts)) + WildcardCountAll(Tail(ts))

\* the number of wildcards of a solved type
WildcardCount(t) ==
    CASE t.tag = "Wildcard" -> 1
      [] t.tag = "Func" ->
            WildcardCountAll(t.args) + WildcardCount(t.closure) + WildcardCount(t.ret)
      [] t.tag = "Alias" -> WildcardCountAll(t.args) + WildcardCount(t.actual)
      [] OTHER -> 0

\* N + M + K of a solved type
FreeCount(t) == Cardinality(RigidNames(t)) + WildcardCount(t) + Cardinality(FlexIds(t))

RECURSIVE FreeCountAll(_)
FreeCountAll(is) ==
    IF is = <<>> THEN 0 ELSE FreeCount(Head(is).solved_type) + FreeCountAll(Tail(is))

\* the import is an alias under the import's own symbol
SelfReferential(import) ==
    import.solved_type.tag = "Alias" /\ import.solved_type.symbol = import.loc_symbol.value

NotSelfReferential(import) == ~SelfReferential(import)

\* the imports the loop has taken so far that are not self-referential aliases
TakenImports == SelectSeq(SubSeq(imports, 1, import_idx - 1), NotSelfReferential)

\* C6: the imports taken so far that are not self-referential aliases have each
\* contributed N+M+K variables to rigid_vars, all different (an import does not
\* reuse the variables an earlier import got for the same names), and one entry
\* to def_types, with the import's symbol and region.
Thm_C6 ==
    /\ Len(rigid_vars) = FreeCountAll(TakenImports)
    /\ \A i, j \in 1..Len(rigid_vars) : i # j => rigid_vars[i] # rigid_vars[j]
    /\ Len(def_types) = Len(TakenImports)
    /\ \A k \in 1..Len(def_types) :
        /\ def_types[k][1] = TakenImports[k].loc_symbol.value
        /\ def_types[k][2].region = TakenImports[k].loc_symbol.region

\* C6 witness: a call returned that took two imports of the same type
\* a, _ -> b: four variables each.
Wit_C6 ==
    /\ con_pc = "returned"
    /\ Len(imports) = 2
    /\ imports[1].solved_type = TyTwo
    /\ imports[2].solved_type = TyTwo
    /\ Len(rigid_vars) = 8
    /\ Len(def_types) = 2

\* C7: the iteration that takes a self-referential alias leaves rigid_vars,
\* def_types and the variable store as they are; the iteration that takes any
\* other import pushes its one entry and allocates its N+M+K variables.
Thm_C7 ==
    [][(con_pc = "loop" /\ import_idx <= Len(imports)) =>
         IF SelfReferential(imports[import_idx])
         THEN /\ rigid_vars' = rigid_vars
              /\ def_types' = def_types
              /\ var_store' = var_store
         ELSE /\ Len(def_types') = Len(def_types) + 1
              /\ def_types'[Len(def_types')][1] = imports[import_idx].loc_symbol.value
              /\ var_store' = var_store + FreeCount(imports[import_idx].solved_type)
              /\ Len(rigid_vars') =
                     Len(rigid_vars) + FreeCount(imports[import_idx].solved_type)]_vars

\* C7 witness: a call returned that took a self-referential alias with free
\* variables and then another import, and only the second contributed.
Wit_C7 ==
    /\ con_pc = "returned"
    /\ Len(imports) = 2
    /\ SelfReferential(imports[1])
    /\ FreeCount(imports[1].solved_type) > 0
    /\ imports[2].solved_type = TyId
    /\ Len(def_types) = 1
    /\ Len(rigid_vars) = 2

(***************************************************************************)
(* Properties of the effect definitions built.                             *)
(***************************************************************************)
\* the application is over and the caller holds what it returned
Applied == eff_pc \in {"applied", "forcing", "forced"}

\* val is the effect tag around one thunk
IsEffect(val) ==
    /\ val.v = "Tag"
    /\ val.name = TagPrivate(the_effect_symbol)
    /\ Len(val.args) = 1

\* the values a closure value holds
CapturedValues(closure) == {closure.env[s] : s \in DOMAIN closure.env}

\* the thunk of the effect the caller holds is a closure built here
ThunkIsClosure == IsEffect(effect_value) /\ effect_value.args[1].v = "Closure"

\* C8: always applied to a value V returns the effect tag around a thunk that
\* captures V (and nothing else), and every forcing of that thunk with {}
\* returns exactly V; the evaluation never gets stuck.
Thm_C8 ==
    run.combinator = "always" =>
        /\ ctl.mode # "stuck"
        /\ Applied =>
            /\ ThunkIsClosure
            /\ Cardinality(DOMAIN effect_value.args[1].env) = 1
            /\ CapturedValues(effect_value.args[1]) = {run.args[1]}
        /\ eff_pc = "forced" => forced_result = run.args[1]

\* always (some value that is not {}) was forced a second time
Wit_C8 ==
    /\ run.combinator = "always"
    /\ run.args[1] # RecordV
    /\ eff_pc = "forced"
    /\ forces >= 2

\* what the host function fn returns for val
HostResult(fn, val) == HostApply(fn, val).val

\* C9: map applied to an effect E whose thunk returns V and a function F
\* returns the effect tag around a thunk that captures exactly E's thunk and
\* F, and forcing that thunk returns F(V); the evaluation never gets stuck.
Thm_C9 ==
    run.combinator = "map" =>
        /\ ctl.mode # "stuck"
        /\ Applied =>
            /\ ThunkIsClosure
            /\ Cardinality(DOMAIN effect_value.args[1].env) = 2
            /\ CapturedValues(effect_value.args[1]) = {run.args[1].args[1], run.args[2]}
        /\ eff_pc = "forced" =>
            forced_result = HostResult(run.args[2], run.args[1].args[1].result)

\* map (E, F) was forced, F was called, and F(V) is not V
Wit_C9 ==
    /\ run.combinator = "map"
    /\ eff_pc = "forced"
    /\ called[run.args[2].name] >= 1
    /\ forced_result # run.args[1].args[1].result

\* what forcing the thunk of K(V) returns: the continuation of the host
\* returns an effect of the host, and always returns an effect whose thunk
\* returns V
ForcedContinuation(K, V) ==
    IF K.v = "HostFn" THEN HostResult(K, V).args[1].result ELSE V

\* C10: after applied to an effect E whose thunk returns V and a continuation
\* K returns an effect, and forcing its thunk returns what forcing the thunk
\* of K(V) returns; the evaluation never gets stuck.
Thm_C10 ==
    run.combinator = "after" =>
        /\ ctl.mode # "stuck"
        /\ Applied => IsEffect(effect_value)
        /\ eff_pc = "forced" =>
            forced_result = ForcedContinuation(run.args[2], run.args[1].args[1].result)

\* after (E, K) was forced, with the continuation of the host
Wit_C10 ==
    /\ run.combinator = "after"
    /\ run.args[2].v = "HostFn"
    /\ eff_pc = "forced"
    /\ called["then"] >= 1
    /\ forced["E"] >= 1

(***************************************************************************)
(* Properties of the shape of the definitions built.                       *)
(***************************************************************************)
\* the def build_effect_builtins declared for a combinator
BuiltDef(name) ==
    CHOOSE d \in {declarations[i].defs[1] : i \in 1..Len(declarations)} :
        d.loc_pattern.value = PIdentifier(Introduced(name))

\* the combinator has been built and declared
IsBuilt(name) ==
    /\ eff_pc \notin {"idle", "start"}
    /\ Introduced(name) \in exposed_symbols

RECURSIVE SubExprs(_)
\* an expression and all the expressions inside it
SubExprs(e) ==
    {e} \cup
    CASE e.expr = "Closure" -> SubExprs(e.loc_body.value)
      [] e.expr = "Tag" ->
            UNION {SubExprs(e.arguments[i][2].value) : i \in 1..Len(e.arguments)}
      [] e.expr = "Call" ->
            SubExprs(e.boxed[2].value)
            \cup UNION {SubExprs(e.arguments[i][2].value) : i \in 1..Len(e.arguments)}
      [] e.expr = "LetNonRec" -> SubExprs(e.def.loc_expr.value) \cup SubExprs(e.body.value)
      [] OTHER -> {}

\* the calls inside e whose callee is the symbol sym
CallsOf(e, sym) ==
    {x \in SubExprs(e) : x.expr = "Call" /\ x.boxed[2].value = ExprVar(sym)}

\* C11: the closure bound to forever is marked recursive and named by the
\* symbol introduced for forever, which is also the def's pattern; its body
\* holds exactly one call of that symbol, and that call's only argument is
\* the closure's own effect argument symbol.
Thm_C11 ==
    IsBuilt("forever") =>
        LET d == BuiltDef("forever")
            closure == d.loc_expr.value
            calls == CallsOf(closure.loc_body.value, d.loc_pattern.value.symbol)
        IN  /\ closure.expr = "Closure"
            /\ closure.recursive = "Recursive"
            /\ closure.name = Introduced("forever")
            /\ d.loc_pattern.value = PIdentifier(closure.name)
            /\ Len(closure.arguments) = 1
            /\ closure.arguments[1][2].value.pat = "Identifier"
            /\ Cardinality(calls) = 1
            /\ \A x \in calls :
                /\ Len(x.arguments) = 1
                /\ x.arguments[1][2].value = ExprVar(closure.arguments[1][2].value.symbol)

\* forever has been built for a platform that names its effect Task
Wit_C11 ==
    /\ IsBuilt("forever")
    /\ eff_pc = "built"
    /\ the_effect_symbol = Sym(EffectHome, "Task")
    /\ declarations[Len(declarations)].decl = "DeclareRec"

(***************************************************************************)
(* Properties of build_host_exposed_def.                                   *)
(***************************************************************************)
\* the defs build_host_exposed_def returned so far
HostDefs ==
    IF eff_pc \in {"host", "panicked"}
    THEN {declarations[i].defs[1] : i \in 1..Len(declarations)}
    ELSE {}

\* the identifier a host def was built for
IdentOf(d) == d.loc_pattern.value.symbol.ident

\* the thunk under the effect tag e: e is the effect tag around one closure
\* named effect_closure_<ident>, whose body is a foreign call tagged
\* roc_fx_<ident>
IsHostEffect(e, ident) ==
    /\ e.expr = "Tag"
    /\ e.name = TagPrivate(the_effect_symbol)
    /\ Len(e.arguments) = 1
    /\ e.arguments[1][2].value.expr = "Closure"
    /\ e.arguments[1][2].value.name = Introduced("effect_closure_" \o ident)
    /\ e.arguments[1][2].value.loc_body.value.expr = "ForeignCall"
    /\ e.arguments[1][2].value.loc_body.value.foreign_symbol = "roc_fx_" \o ident

\* C12: for an annotation that dealiases to a function type of N arguments,
\* the def's body is a closure named by the given symbol with exactly the N
\* argument patterns closure_arg_<ident>_0 .. closure_arg_<ident>_(N-1); its
\* body is the effect tag around a thunk that captures exactly those N
\* symbols in order, and the thunk's body is the foreign call roc_fx_<ident>
\* on those N symbols in order, each with the variable of its pattern.
Thm_C12 ==
    \A d \in HostDefs :
        shallow_dealias(d.annotation.signature).tag = "Function" =>
            LET N == Len(shallow_dealias(d.annotation.signature).args)
                arg(i) == Introduced("closure_arg_" \o IdentOf(d) \o "_" \o ToString(i - 1))
                closure == d.loc_expr.value
                thunk == closure.loc_body.value.arguments[1][2].value
            IN  /\ closure.expr = "Closure"
                /\ closure.name = d.loc_pattern.value.symbol
                /\ Len(closure.arguments) = N
                /\ \A i \in 1..N : closure.arguments[i][2].value = PIdentifier(arg(i))
                /\ IsHostEffect(closure.loc_body.value, IdentOf(d))
                /\ Len(thunk.captured_symbols) = N
                /\ \A i \in 1..N : thunk.captured_symbols[i][1] = arg(i)
                /\ Len(thunk.loc_body.value.args) = N
                /\ \A i \in 1..N :
                    thunk.loc_body.value.args[i] = <<closure.arguments[i][1], ExprVar(arg(i))>>

\* a def was built for a function of two arguments and one for an alias of a
\* function
Wit_C12 ==
    /\ \E d \in HostDefs :
        /\ d.annotation.signature.tag = "Function"
        /\ Len(d.annotation.signature.args) = 2
    /\ \E d \in HostDefs :
        /\ d.annotation.signature.tag = "Alias"
        /\ shallow_dealias(d.annotation.signature).tag = "Function"

\* C13: for an annotation that does not dealias to a function type, the
\* def's body is the effect tag around a thunk itself, with no closure over
\* arguments around it; the thunk captures no symbol and its body is the
\* foreign call roc_fx_<ident> with no arguments.
Thm_C13 ==
    \A d \in HostDefs :
        shallow_dealias(d.annotation.signature).tag # "Function" =>
            /\ IsHostEffect(d.loc_expr.value, IdentOf(d))
            /\ d.loc_expr.value.arguments[1][2].value.captured_symbols = <<>>
            /\ d.loc_expr.value.arguments[1][2].value.loc_body.value.args = <<>>

\* a def was built for an alias of the effect alias and one for the empty
\* record
Wit_C13 ==
    /\ \E d \in HostDefs :
        /\ d.annotation.signature.tag = "Alias"
        /\ d.annotation.signature.actual.tag = "Alias"
    /\ \E d \in HostDefs : d.annotation.signature.tag = "EmptyRec"

\* the type variable an effect alias instance is applied to
EffectParameter(alias) == alias.type_arguments[1][2].var

\* C14: the signature of forever is Effect a -> Effect b: a function of one
\* effect alias to an effect alias, where the parameter b of the result is a
\* variable other than the parameter a of the argument and is introduced
\* under a name of its own.
Orig_C14 ==
    IsBuilt("forever") =>
        LET annotation == BuiltDef("forever").annotation
            signature == annotation.signature
            names == annotation.introduced_variables.name_by_var
        IN  /\ signature.tag = "Function"
            /\ Len(signature.args) = 1
            /\ signature.args[1].tag = "Alias"
            /\ signature.args[1].symbol = the_effect_symbol
            /\ signature.ret.tag = "Alias"
            /\ signature.ret.symbol = the_effect_symbol
            /\ EffectParameter(signature.ret) # EffectParameter(signature.args[1])
            /\ EffectParameter(signature.ret) \in DOMAIN names
            /\ EffectParameter(signature.args[1]) \in DOMAIN names
            /\ names[EffectParameter(signature.ret)] # names[EffectParameter(signature.args[1])]

\* what build_effect_forever builds for C14: the signature is Effect a ->
\* Effect a, both effect aliases applied to the one variable introduced as
\* "a", and no other variable is introduced under a name.
Thm_C14 ==
    IsBuilt("forever") =>
        LET annotation == BuiltDef("forever").annotation
            signature == annotation.signature
        IN  /\ signature.tag = "Function"
            /\ Len(signature.args) = 1
            /\ signature.args[1].tag = "Alias"
            /\ signature.ret.tag = "Alias"
            /\ EffectParameter(signature.ret) = EffectParameter(signature.args[1])
            /\ DOMAIN annotation.introduced_variables.var_by_name = {"a"}
            /\ annotation.introduced_variables.var_by_name["a"] = EffectParameter(signature.ret)

\* forever has been built, after a store that had allocated variables before
Wit_C14 ==
    /\ IsBuilt("forever")
    /\ eff_pc = "built"
    /\ BuiltDef("forever").annotation.some
    /\ EffectParameter(BuiltDef("forever").annotation.signature.ret) > 100

\* the caller applied forever to an effect of the host
RunsForever == run.combinator = "forever"

\* the machine is about to call E's thunk
ForcingE == ctl.mode = "apply" /\ ctl.fn.v = "HostThunk" /\ ctl.fn.id = "E"

\* the machine is about to apply forever
ApplyingForever ==
    ctl.mode = "apply" /\ ctl.fn.v = "Closure" /\ ctl.fn.name = Introduced("forever")

\* C15: applying forever to an effect E of the host returns an effect and
\* does not force E; forcing that effect's thunk never returns a value and
\* never gets stuck: from then on E's thunk is forced again and again, and
\* forever is applied again and again between the forcings.
Thm_C15 ==
    /\ [](RunsForever =>
            /\ ctl.mode # "stuck"
            /\ forces = 0 => forced["E"] = 0
            /\ Applied => IsEffect(effect_value)
            /\ eff_pc # "forced"
            /\ eff_pc = "forcing" => ~(ctl.mode = "ret" /\ kont = <<>>))
    /\ []((RunsForever /\ eff_pc = "forcing") => ([]<>ForcingE /\ []<>ApplyingForever))

\* the effect forever returned is being forced and E's thunk has been forced
\* as often as is counted
Wit_C15 ==
    /\ RunsForever
    /\ eff_pc = "forcing"
    /\ forces = 1
    /\ forced["E"] = MaxForced

\* the caller applied after to an effect of the host and a continuation
RunsAfter == run.combinator = "after"

\* how often the continuation of the host was called
ContinuationCalls == called["then"]

\* C16: applying after to (E, K) forces neither E's thunk nor calls K; E's
\* thunk is forced and K is called only when the thunk of the effect returned
\* is forced, once for each such forcing.
Orig_C16 ==
    (RunsAfter /\ run.args[2].v = "HostFn") =>
        /\ forces = 0 => (forced["E"] = 0 /\ ContinuationCalls = 0)
        /\ eff_pc \in {"applied", "forced"} =>
            (forced["E"] = forces /\ ContinuationCalls = forces)

\* what the definition built does for C16: the application itself forces E's
\* thunk once and calls K once, and no forcing of the effect returned forces
\* E's thunk or calls K again.
Thm_C16 ==
    (RunsAfter /\ run.args[2].v = "HostFn" /\ Applied) =>
        /\ forced["E"] = 1
        /\ ContinuationCalls = 1
        /\ forced["E2"] = IF eff_pc = "forcing" /\ ctl.mode = "ret" THEN forces
                          ELSE IF eff_pc = "forcing" THEN forces - 1 ELSE forces

\* after returned, its effect has not been forced, and E's thunk has been
\* forced and K called
Wit_C16 ==
    /\ RunsAfter
    /\ run.args[2].v = "HostFn"
    /\ eff_pc = "applied"
    /\ forces = 0
    /\ forced["E"] = 1
    /\ ContinuationCalls = 1

\* e is the call of the symbol sym on the one argument expression argument
IsCallOf(e, sym, argument) ==
    /\ e.expr = "Call"
    /\ e.boxed[2].value = ExprVar(sym)
    /\ Len(e.arguments) = 1
    /\ e.arguments[1][2].value = argument

\* p is the pattern `@Effect sym`
IsEffectPattern(p, sym) ==
    /\ p.pat = "AppliedTag"
    /\ p.tag_name = TagPrivate(the_effect_symbol)
    /\ Len(p.arguments) = 1
    /\ p.arguments[1][2].value = PIdentifier(sym)

\* C17: the body of forever is the effect tag around one inner closure of {}
\* that captures exactly the effect argument symbol; the inner closure's body
\* is, in this order, `@Effect thunk1 = effect`, `_ = thunk1 {}`,
\* `@Effect thunk2 = forever effect` and then the call `thunk2 {}` as the
\* expression the last binding ends in, with nothing around or after it.
Thm_C17 ==
    IsBuilt("forever") =>
        LET closure == BuiltDef("forever").loc_expr.value
            effect == closure.arguments[1][2].value.symbol
            body == closure.loc_body.value
            inner == body.arguments[1][2].value
            first == inner.loc_body.value
            second == first.body.value
            third == second.body.value
            tail == third.body.value
        IN  /\ body.expr = "Tag"
            /\ body.name = TagPrivate(the_effect_symbol)
            /\ Len(body.arguments) = 1
            /\ inner.expr = "Closure"
            /\ Len(inner.arguments) = 1
            /\ inner.arguments[1][2].value.pat = "RecordDestructure"
            /\ inner.arguments[1][2].value.destructs = <<>>
            /\ Len(inner.captured_symbols) = 1
            /\ inner.captured_symbols[1][1] = effect
            /\ first.expr = "LetNonRec"
            /\ IsEffectPattern(first.def.loc_pattern.value, Introduced("thunk1"))
            /\ first.def.loc_expr.value = ExprVar(effect)
            /\ second.expr = "LetNonRec"
            /\ second.def.loc_pattern.value = PUnderscore
            /\ IsCallOf(second.def.loc_expr.value, Introduced("thunk1"), ExprEmptyRecord)
            /\ third.expr = "LetNonRec"
            /\ IsEffectPattern(third.def.loc_pattern.value, Introduced("thunk2"))
            /\ IsCallOf(third.def.loc_expr.value, Introduced("forever"), ExprVar(effect))
            /\ IsCallOf(tail, Introduced("thunk2"), ExprEmptyRecord)

\* forever has been built, in a module that had a declaration of its own
Wit_C17 ==
    /\ IsBuilt("forever")
    /\ eff_pc = "built"
    /\ Len(declarations) = 5
    /\ BuiltDef("forever").loc_expr.value.loc_body.value.expr = "Tag"

(***************************************************************************)
(* Properties of pre_constrain_imports: aliases, hacky imports, the tables. *)
(***************************************************************************)
\* the module an import was taken from
ModuleOfImport(i) == imported_symbols[i].loc_symbol.value.module_id

\* the imports, by position, taken from a Valid module that exports the alias k
Contributors(k) ==
    {i \in 1..Len(imported_symbols) :
        /\ IsForeign(imported_symbols[i].loc_symbol.value)
        /\ ModuleOfImport(i) \in DOMAIN exposed_types
        /\ exposed_types[ModuleOfImport(i)].tag = "Valid"
        /\ k \in DOMAIN exposed_types[ModuleOfImport(i)].aliases}

\* the last of them
LastContributor(k) == CHOOSE i \in Contributors(k) : \A j \in Contributors(k) : j <= i

\* the alias symbols the modules of the table export
ExportedAliases ==
    UNION {DOMAIN exposed_types[m].aliases : m \in {x \in DOMAIN exposed_types :
                                                        exposed_types[x].tag = "Valid"}}

\* C18: imported_aliases holds, for each alias symbol some contributing Valid
\* module exports, the one definition of the module whose referenced symbol
\* was processed last, and nothing else; a collision raises no error: the
\* call aborts only for a missing builtin, a missing module or a missing
\* stored variable.
Thm_C18 ==
    /\ DOMAIN imported_aliases = {k \in ExportedAliases : Contributors(k) # {}}
    /\ \A k \in DOMAIN imported_aliases :
        imported_aliases[k] = exposed_types[ModuleOfImport(LastContributor(k))].aliases[k]
    /\ pre_pc = "panicked" =>
        BuiltinMissing(symbol) \/ ModuleMissing(symbol) \/ StoredVarMissing(symbol)

\* the call returned after two modules with different definitions of the one
\* alias contributed, Dep2 first and Dep1 last
Wit_C18 ==
    /\ pre_pc = "returned"
    /\ Cardinality({ModuleOfImport(i) : i \in Contributors(SharedAlias)}) = 2
    /\ ModuleOfImport(LastContributor(SharedAlias)) = "Dep1"
    /\ imported_aliases[SharedAlias] = Dep1Aliases[SharedAlias]
    /\ Dep1Aliases[SharedAlias] # Dep2Aliases[SharedAlias]

\* a referenced symbol of a foreign module whose entry is Valid
IsValidRef(s) ==
    /\ IsForeign(s)
    /\ s.module_id \in DOMAIN exposed_types
    /\ exposed_types[s.module_id].tag = "Valid"

\* the entry of the symbol's module
EntryOf(s) == exposed_types[s.module_id]

\* the positions of the hacky imports of a symbol
HackyOf(s) == {i \in 1..Len(hacky_symbols) : hacky_symbols[i].loc_symbol.value = s}

\* the variable of the first pair the stored-vars list holds for the symbol
PairedVariable(s) ==
    LET stored == EntryOf(s).stored_vars_by_symbol
        first == CHOOSE i \in 1..Len(stored) :
                    /\ stored[i][1] = s
                    /\ \A j \in 1..(i - 1) : stored[j][1] # s
    IN  stored[first][2]

\* the references the loop has processed, of Valid entries with a solved type
SolvedRefs ==
    {s \in references \ todo : IsValidRef(s) /\ s \in DOMAIN EntryOf(s).solved_types}

\* C19: while the call has not aborted, and so in its result, a processed
\* reference of a foreign module with a Valid entry has, when the entry records
\* a solved type for it, exactly one Import (of that type) and exactly one
\* HackyImport, which carries the entry's storage and the variable paired with
\* the symbol in the stored-vars list; when the entry records no solved type it
\* has no Import and no HackyImport, and its module's aliases are not merged:
\* every imported alias is the definition of the module of a reference with a
\* solved type.
Thm_C19 ==
    pre_pc \in {"loop", "returned"} =>
        /\ \A s \in references \ todo : IsValidRef(s) =>
            IF s \in DOMAIN EntryOf(s).solved_types
            THEN /\ Cardinality(ImportsOf(s)) = 1
                 /\ \A i \in ImportsOf(s) :
                        imported_symbols[i] =
                            Import(Loc(s, RegionZero), EntryOf(s).solved_types[s])
                 /\ Cardinality(HackyOf(s)) = 1
                 /\ \A i \in HackyOf(s) :
                        hacky_symbols[i] =
                            HackyImport(EntryOf(s).storage_subs, Loc(s, RegionZero),
                                        PairedVariable(s))
            ELSE ImportsOf(s) = {} /\ HackyOf(s) = {}
        /\ \A k \in DOMAIN imported_aliases : \E s \in SolvedRefs :
            /\ k \in DOMAIN EntryOf(s).aliases
            /\ imported_aliases[k] = EntryOf(s).aliases[k]

\* the call returned with Dep1.y skipped (its entry exports an alias and has no
\* solved type for y) and Dep2.z imported with the variable of the first of
\* its two pairs; the alias is the one of Dep2
Wit_C19 ==
    /\ pre_pc = "returned"
    /\ references = {Sym("Dep1", "y"), Sym("Dep2", "z")}
    /\ IsValidRef(Sym("Dep1", "y"))
    /\ Sym("Dep1", "y") \notin DOMAIN EntryOf(Sym("Dep1", "y")).solved_types
    /\ SharedAlias \in DOMAIN EntryOf(Sym("Dep1", "y")).aliases
    /\ SolvedRefs = {Sym("Dep2", "z")}
    /\ Len(imported_symbols) = 1
    /\ Len(hacky_symbols) = 1
    /\ hacky_symbols[1].variable = 43
    /\ Len(EntryOf(Sym("Dep2", "z")).stored_vars_by_symbol) = 2
    /\ imported_aliases = Dep2Aliases

\* C20: no step of pre_constrain_imports changes the exposed-types table (its
\* module ids and the contents of every entry) or the builtin table, so a call
\* that returns leaves both as it found them.
Thm_C20 == [][exposed_types' = exposed_types /\ stdlib' = stdlib]_vars

\* the call returned after it read a Valid entry, with a solved type, and an
\* Invalid entry of the table, and the builtin table
Wit_C20 ==
    /\ pre_pc = "returned"
    /\ \E s \in references : IsInvalidRef(s)
    /\ \E s \in references : IsValidRef(s) /\ s \in DOMAIN EntryOf(s).solved_types
    /\ Len(hacky_symbols) = 1
    /\ DOMAIN exposed_types = {"Dep1", "Dep2"}
    /\ DOMAIN stdlib.types # {}

(***************************************************************************)
(* Properties of constrain_imports: the order of the two lists.            *)
(***************************************************************************)
\* the number of variables the first k taken imports have pushed
PushedBefore(k) == FreeCountAll(SubSeq(TakenImports, 1, k - 1))

\* the table the k-th taken import was translated into: the allocator stood at
\* its value at the call plus one for each variable pushed before
TableOf(k) ==
    to_type(TakenImports[k].solved_type, ImportFreeVars(TakenImports[k]),
            (var_store - FreeCountAll(TakenImports)) + PushedBefore(k)).free_vars

\* the part of rigid_vars the k-th taken import pushed
SegmentOf(k) == SubSeq(rigid_vars, PushedBefore(k) + 1, PushedBefore(k + 1))

\* C21: rigid_vars is the concatenation, over the imports taken so far in input
\* order (self-referential aliases aside), of the import's named variables (in
\* the order its map is iterated in), then its wildcard variables (in the order
\* they were met), then its unnamed variables; def_types holds the taken
\* imports' symbols in input order.
Thm_C21 ==
    /\ Len(rigid_vars) = PushedBefore(Len(TakenImports) + 1)
    /\ \A k \in 1..Len(TakenImports) :
        LET fv == TableOf(k)
            seg == SegmentOf(k)
            n == Cardinality(DOMAIN fv.named_vars)
            w == Len(fv.wildcards)
        IN  /\ {seg[i] : i \in 1..n} = {fv.named_vars[x] : x \in DOMAIN fv.named_vars}
            /\ SubSeq(seg, n + 1, n + w) = fv.wildcards
            /\ {seg[i] : i \in (n + w + 1)..Len(seg)} =
                   {fv.unnamed_vars[x] : x \in DOMAIN fv.unnamed_vars}
    /\ [k \in 1..Len(def_types) |-> def_types[k][1]] =
           [k \in 1..Len(TakenImports) |-> TakenImports[k].loc_symbol.value]

\* a call returned that took Dep1.x : a, _ -> b and then Num.add, with two
\* wildcards, two unnamed variables and a name: each segment has its named
\* variables first (b before a in the first), then the wildcards, then the
\* unnamed ones
Wit_C21 ==
    /\ con_pc = "returned"
    /\ Len(imports) = 2
    /\ imports[1] = Import(Loc(Sym("Dep1", "x"), RegionZero), TyTwo)
    /\ imports[2].loc_symbol.value = Sym("Num", "add")
    /\ rigid_vars = <<2, 0, 3, 1, 7, 4, 8, 6, 5>>
    /\ def_types[1][1] = Sym("Dep1", "x")
    /\ def_types[2][1] = Sym("Num", "add")

(***************************************************************************)
(* Properties of the signatures: the effect alias instances.               *)
(***************************************************************************)
RECURSIVE AliasesIn(_)
\* the alias types inside a type, the type itself included
AliasesIn(t) ==
    CASE t.tag = "Alias" ->
            {t} \cup AliasesIn(t.actual)
                \cup UNION {AliasesIn(t.type_arguments[i][2]) : i \in DOMAIN t.type_arguments}
      [] t.tag = "Function" ->
            AliasesIn(t.ret) \cup AliasesIn(t.closure)
                \cup UNION {AliasesIn(t.args[i]) : i \in DOMAIN t.args}
      [] t.tag = "TagUnion" ->
            AliasesIn(t.ext)
                \cup UNION {UNION {AliasesIn(t.tags[i][2][j]) : j \in 1..Len(t.tags[i][2])} :
                                i \in DOMAIN t.tags}
      [] OTHER -> {}

\* the names build_effect_builtins has built a def for
BuiltNames == {BUILTIN_EFFECT_FUNCTIONS[i] : i \in 1..Len(BUILTIN_EFFECT_FUNCTIONS)}

\* C22: in the signature of each of the four combinators, every alias is an
\* alias under the effect symbol with one type argument and one lambda-set
\* variable, whose actual type is a closed tag union of the one effect tag with
\* the one payload {} -> a, the function's closure variable being the
\* lambda-set variable; that variable is registered as a wildcard, once, is no
\* named variable, and belongs to one instance only: the argument and the
\* result of map, after and forever are instances with different lambda-set
\* variables.
Thm_C22 ==
    \A name \in BuiltNames : IsBuilt(name) =>
        LET annotation == BuiltDef(name).annotation
            signature == annotation.signature
            wildcards == annotation.introduced_variables.wildcards
            instances == AliasesIn(signature)
        IN  /\ instances # {}
            /\ \A alias \in instances :
                /\ alias.symbol = the_effect_symbol
                /\ Len(alias.type_arguments) = 1
                /\ Len(alias.lambda_set_variables) = 1
                /\ alias.lambda_set_variables[1].tag = "Variable"
                /\ alias.actual =
                       TagUnion(<<<<TagPrivate(the_effect_symbol),
                                    <<Function(<<EmptyRec>>, alias.lambda_set_variables[1],
                                               alias.type_arguments[1][2])>>>>>>,
                                EmptyTagUnion)
                /\ Cardinality({i \in 1..Len(wildcards) :
                                   wildcards[i] = alias.lambda_set_variables[1].var}) = 1
                /\ alias.lambda_set_variables[1].var
                       \notin DOMAIN annotation.introduced_variables.name_by_var
            /\ \A one, other \in instances :
                one.lambda_set_variables = other.lambda_set_variables => one = other
            /\ signature.ret \in instances
            /\ name # "always" =>
                /\ signature.args[1] \in instances
                /\ signature.args[1].lambda_set_variables # signature.ret.lambda_set_variables

\* the four defs are built; the two instances of forever's signature differ in
\* the lambda-set variable only, and the two of after's occur in three places
Wit_C22 ==
    /\ eff_pc = "built"
    /\ \A name \in BuiltNames : IsBuilt(name)
    /\ LET signature == BuiltDef("forever").annotation.signature
       IN  /\ signature.args[1].type_arguments = signature.ret.type_arguments
           /\ signature.args[1].lambda_set_variables[1].var > 100
           /\ signature.ret.lambda_set_variables[1].var =
                  signature.args[1].lambda_set_variables[1].var + 1
    /\ Cardinality(AliasesIn(BuiltDef("after").annotation.signature)) = 2

(***************************************************************************)
(* Properties of the defs: the function variable.                          *)
(***************************************************************************)
\* the def's expression variable, the variable its pattern_vars record for the
\* combinator's symbol and the function_type of its top-level closure are one
\* variable
OneFunctionVar(name) ==
    LET def == BuiltDef(name)
    IN  /\ def.loc_expr.value.expr = "Closure"
        /\ DOMAIN def.pattern_vars = {Introduced(name)}
        /\ def.pattern_vars[Introduced(name)] = def.expr_var
        /\ def.loc_expr.value.function_type = def.expr_var

\* C23: for each of the four combinator definitions the def's expression
\* variable, the variable recorded for the combinator's symbol in the def's
\* pattern variables and the function-type variable of the def's top-level
\* closure are one and the same variable.
Orig_C23 == \A name \in BuiltNames : IsBuilt(name) => OneFunctionVar(name)

\* C23, as built: always, map and after have the one variable; in forever the
\* expression variable and the pattern variable are function_var, and the
\* closure's function_type is the variable allocated right after it.
Thm_C23 ==
    /\ \A name \in BuiltNames \ {"forever"} : IsBuilt(name) => OneFunctionVar(name)
    /\ IsBuilt("forever") =>
        LET def == BuiltDef("forever")
        IN  /\ def.loc_expr.value.expr = "Closure"
            /\ DOMAIN def.pattern_vars = {Introduced("forever")}
            /\ def.pattern_vars[Introduced("forever")] = def.expr_var
            /\ def.loc_expr.value.function_type = def.expr_var + 1

\* the four defs are built, on an allocator that stood at 5, and forever's
\* closure has a function_type of its own
Wit_C23 ==
    /\ eff_pc = "built"
    /\ \A name \in BuiltNames : IsBuilt(name)
    /\ BuiltDef("always").expr_var = 75
    /\ BuiltDef("always").loc_expr.value.function_type = 75
    /\ BuiltDef("forever").expr_var = 118
    /\ BuiltDef("forever").loc_expr.value.function_type = 119

(***************************************************************************)
(* Properties of build_effect_builtins: what it adds to the module.        *)
(***************************************************************************)
\* the declaration holds one def, which binds the combinator of that name
DeclaresOnly(d, name) ==
    /\ Len(d.defs) = 1
    /\ d.defs[1].loc_pattern.value = PIdentifier(Introduced(name))

\* C24: a call of build_effect_builtins that returns leaves the declarations
\* it found in place and unchanged and appends four to them: after, map and
\* always as non-recursive declarations and then forever as a recursive group
\* of its one def; and it adds the four combinator symbols, and no other, to
\* the exposed symbols.
Thm_C24 ==
    [][(eff_pc = "start" /\ eff_pc' = "built") =>
         LET n == Len(declarations)
         IN  /\ Len(declarations') = n + 4
             /\ SubSeq(declarations', 1, n) = declarations
             /\ \A i \in 1..3 : declarations'[n + i].decl = "Declare"
             /\ DeclaresOnly(declarations'[n + 1], "after")
             /\ DeclaresOnly(declarations'[n + 2], "map")
             /\ DeclaresOnly(declarations'[n + 3], "always")
             /\ declarations'[n + 4].decl = "DeclareRec"
             /\ DeclaresOnly(declarations'[n + 4], "forever")
             /\ exposed_symbols' \ exposed_symbols =
                    {Introduced("after"), Introduced("map"), Introduced("always"),
                     Introduced("forever")}
             /\ exposed_symbols \subseteq exposed_symbols']_vars

\* the call returned on a module that had a declaration and an exposed symbol
\* of its own
Wit_C24 ==
    /\ eff_pc = "built"
    /\ Len(declarations) = 5
    /\ declarations[1] = Declare(UserDef)
    /\ declarations[5].decl = "DeclareRec"
    /\ Introduced("main") \in exposed_symbols
    /\ Cardinality(exposed_symbols) = 5

====
